---- MODULE Spec2Model ----
(***************************************************************************)
(* Sparse connected-component labelling of traccc's CUDA backend           *)
(* (device/cuda/src/cca/component_connection.cu): the host-side            *)
(* partitioner, the adjacency reducer, the Fast-SV label propagator and    *)
(* the output reservation of the kernel.                                   *)
(*                                                                         *)
(* Arrays keep the source's 0-based indices: an array of length n is a     *)
(* function with domain 0..n-1.  Values of type unsigned int (channel_id   *)
(* and the temporaries of is_adjacent) are 32 bits wide; they are written  *)
(* as pairs <<hi, lo>> of 16-bit halves so that every value of the type    *)
(* and the wrap-around of its arithmetic can be written down.              *)
(***************************************************************************)
EXTENDS Integers, Sequences, FiniteSets, TLC

(***************************************************************************)
(* Program constants.  The two sizes of the source, 256 work-items per     *)
(* group and 2048 cells per partition, are scaled down for model checking  *)
(* with their ratio (8 adjacency rows per work-item) kept.                 *)
(***************************************************************************)
THREADS_PER_BLOCK == 2

AdjRows == 8

MAX_CELLS_PER_PARTITION == AdjRows * THREADS_PER_BLOCK

AdjSlots == 8

(* index_t is unsigned short *)
IndexMod == 65536

(***************************************************************************)
(* unsigned int arithmetic, modulo 2^32, on pairs of 16-bit halves.        *)
(***************************************************************************)
Half == 65536

U32(n) == <<n \div Half, n % Half>>

UINT_MAX == <<Half - 1, Half - 1>>

U32Add(a, b) ==
    LET lo == a[2] + b[2]
        hi == a[1] + b[1] + (lo \div Half)
    IN  <<hi % Half, lo % Half>>

U32Sub(a, b) ==
    LET lo == a[2] - b[2]
        hi == a[1] - b[1] - (IF lo < 0 THEN 1 ELSE 0)
    IN  <<(hi + Half) % Half, (lo + Half) % Half>>

(* the exact 32-bit product of two 16-bit halves *)
Mul16(x, y) ==
    LET x1 == x \div 256
        x0 == x % 256
        y1 == y \div 256
        y0 == y % 256
        m == x1 * y0 + x0 * y1
        low == x0 * y0 + (m % 256) * 256
    IN  <<x1 * y1 + (m \div 256) + (low \div Half), low % Half>>

U32Mul(a, b) ==
    LET ll == Mul16(a[2], b[2])
        hl == Mul16(a[1], b[2])
        lh == Mul16(a[2], b[1])
    IN  <<(ll[1] + hl[2] + lh[2]) % Half, ll[2]>>

U32Lt(a, b) == a[1] < b[1] \/ (a[1] = b[1] /\ a[2] < b[2])

U32Le(a, b) == a = b \/ U32Lt(a, b)

(***************************************************************************)
(* is_adjacent: p0 and p1 are unsigned int, the subtraction and the        *)
(* products wrap.                                                          *)
(***************************************************************************)
is_adjacent(ac0, ac1, bc0, bc1) ==
    LET p0 == U32Sub(ac0, bc0)
        p1 == U32Sub(ac1, bc1)
    IN  U32Le(U32Mul(p0, p0), U32(1)) /\ U32Le(U32Mul(p1, p1), U32(1))

(* a backward scan that does not look at the module of cell j *)
RECURSIVE BackwardScanAnyModule(_, _, _, _)
BackwardScanAnyModule(cells, tid, j, adj) ==
    IF ~(j < tid) THEN adj
    ELSE IF U32Lt(U32Add(cells.channel1[j], U32(1)), cells.channel1[tid])
         THEN adj
         ELSE BackwardScanAnyModule(cells, tid, (j + IndexMod - 1) % IndexMod,
                  IF is_adjacent(cells.channel0[tid], cells.channel1[tid],
                                 cells.channel0[j], cells.channel1[j])
                  THEN Append(adj, j) ELSE adj)

(***************************************************************************)
(* reduce_problem_cell.  cells is the cell_container of one partition:     *)
(* [size, channel0, channel1, activation, time, module_id].  The result is *)
(* the sequence of the indices stored through adjv[adjc++], in store order *)
(* (its length is the final adjc).                                         *)
(***************************************************************************)
RECURSIVE BackwardScan(_, _, _, _)
BackwardScan(cells, tid, j, adj) ==
    IF ~(j < tid) THEN adj
    ELSE IF U32Lt(U32Add(cells.channel1[j], U32(1)), cells.channel1[tid])
              \/ cells.module_id[j] # cells.module_id[tid]
         THEN adj
         ELSE BackwardScan(cells, tid, (j + IndexMod - 1) % IndexMod,
                  IF is_adjacent(cells.channel0[tid], cells.channel1[tid],
                                 cells.channel0[j], cells.channel1[j])
                  THEN Append(adj, j) ELSE adj)

RECURSIVE ForwardScan(_, _, _, _)
ForwardScan(cells, tid, j, adj) ==
    IF ~(j < cells.size) THEN adj
    ELSE IF U32Lt(U32Add(cells.channel1[tid], U32(1)), cells.channel1[j])
              \/ cells.module_id[j] # cells.module_id[tid]
         THEN adj
         ELSE ForwardScan(cells, tid, (j + 1) % IndexMod,
                  IF is_adjacent(cells.channel0[tid], cells.channel1[tid],
                                 cells.channel0[j], cells.channel1[j])
                  THEN Append(adj, j) ELSE adj)

reduce_problem_cell(cells, tid) ==
    ForwardScan(cells, tid, (tid + 1) % IndexMod,
        BackwardScan(cells, tid, (tid + IndexMod - 1) % IndexMod, <<>>))

(***************************************************************************)
(* Inputs.  A cell is [channel0, channel1, activation, time]; a module of  *)
(* the host_cell_container is [module, items]; the container is a list of  *)
(* modules.  The caller passes each module's items sorted by channel1,     *)
(* ties broken by channel0, and modules with distinct identifiers.         *)
(***************************************************************************)
MaxCells == 5

MaxCellsSV == 4

MaxModules == 2

CellLt(a, b) ==
    U32Lt(a.channel1, b.channel1)
        \/ (a.channel1 = b.channel1 /\ U32Lt(a.channel0, b.channel0))

RECURSIVE SortedItems(_)
SortedItems(S) ==
    IF S = {} THEN <<>>
    ELSE LET m == CHOOSE x \in S : \A y \in S \ {x} : CellLt(x, y)
         IN  <<m>> \o SortedItems(S \ {m})

GridCells(C0, C1) ==
    {[channel0 |-> c0, channel1 |-> c1, activation |-> 1, time |-> 0] :
         c0 \in C0, c1 \in C1}

ItemLists(G, n) == {SortedItems(S) : S \in {T \in SUBSET G : Cardinality(T) <= n}}

(* the lists of at most m item lists over the cells G, at most n cells in all *)
RECURSIVE ItemSeqs(_, _, _)
ItemSeqs(G, m, n) ==
    IF m = 0 THEN {<<>>}
    ELSE {<<>>} \cup
         UNION {{<<it>> \o rest : rest \in ItemSeqs(G, m - 1, n - Len(it))} :
                    it \in ItemLists(G, n)}

Containers(G, m, n) ==
    {[i \in 1..Len(its) |-> [module |-> i, items |-> its[i]]] :
         its \in ItemSeqs(G, m, n)}

SmallGrid == GridCells({U32(0), U32(1), U32(2)}, {U32(0), U32(1)})

SVInputs == Containers(SmallGrid, MaxModules, MaxCellsSV)

(***************************************************************************)
(* State.                                                                  *)
(***************************************************************************)
VARIABLES
    seed,        \* the seeding kernels' state (doublet counting and finding)
    ndebug,      \* the build: TRUE when NDEBUG disables assert (line 349)
    data,        \* the host_cell_container passed to operator()
    hpc,         \* where the host is in operator()
    container,   \* the Cell SoA (details::cell_container)
    pi,          \* partition(): module index i
    pj,          \* partition(): position in data.at(i).items
    last_mid,    \* partition(): last_mid
    index,       \* partition(): index
    size,        \* partition(): size
    partitions,  \* the partition list
    pc,          \* pc[b][t]: where work-item t of work-group b is
    loc,         \* loc[b][t]: its registers tst, k, q, ft, gfc
    adjc,        \* adjc[b][t][tst]
    adjv,        \* adjv[b][t][tst]: the slots adjv[tst][0..adjc-1]
    f,           \* f[b]: shared array f of work-group b
    gf,          \* gf[b]: shared array gf of work-group b
    outi,        \* outi[b]: the kernel's shared outi (line 422)
    agg_outi,    \* agg_outi[b]: the shared outi of aggregate_clusters (line 249)
    mctnr,       \* the flat measurement_container: [size, slot]
    wlog,        \* history: the stores to output slots, <<slot, b, tid>>
    hist,        \* history: hist[b], the barriers and rounds of work-group b
    out          \* the host_measurement_container returned by operator()

vars == <<seed, ndebug, data, hpc, container, pi, pj, last_mid, index, size, partitions,
          pc, loc, adjc, adjv, f, gf, outi, agg_outi, mctnr, wlog, hist, out>>

outVars == <<outi, agg_outi, mctnr, wlog, out>>

hostVars == <<seed, ndebug, data, hpc, container, pi, pj, last_mid, index, size, partitions>>

blockDim == THREADS_PER_BLOCK

Threads == 0..(blockDim - 1)

Blocks == 0..(Len(partitions) - 1)

(***************************************************************************)
(* operator(), lines 500-534: the Cell SoA.                                *)
(***************************************************************************)
RECURSIVE Flatten(_, _)
Flatten(d, i) ==
    IF i > Len(d) THEN <<>>
    ELSE [j \in 1..Len(d[i].items) |->
             [channel0 |-> d[i].items[j].channel0,
              channel1 |-> d[i].items[j].channel1,
              activation |-> d[i].items[j].activation,
              time |-> d[i].items[j].time,
              module_id |-> d[i].module]] \o Flatten(d, i + 1)

MakeContainer(d) ==
    LET s == Flatten(d, 1)
    IN  [size |-> Len(s),
         channel0 |-> [x \in 0..(Len(s) - 1) |-> s[x + 1].channel0],
         channel1 |-> [x \in 0..(Len(s) - 1) |-> s[x + 1].channel1],
         activation |-> [x \in 0..(Len(s) - 1) |-> s[x + 1].activation],
         time |-> [x \in 0..(Len(s) - 1) |-> s[x + 1].time],
         module_id |-> [x \in 0..(Len(s) - 1) |-> s[x + 1].module_id]]

BuildSoA ==
    /\ hpc = "soa"
    /\ container' = MakeContainer(data)
    /\ hpc' = "partition"
    /\ UNCHANGED <<seed, ndebug, data, pi, pj, last_mid, index, size, partitions,
                   pc, loc, adjc, adjv, f, gf, hist, outVars>>

(***************************************************************************)
(* partition(), lines 455-492.  One action per iteration of the inner      *)
(* loop, one for the end of a module, one for the end of the input.        *)
(***************************************************************************)
(* a split at every row gap, whatever the size of the partition *)
PartitionCellAnySize ==
    /\ hpc = "partition"
    /\ pi < Len(data)
    /\ pj < Len(data[pi + 1].items)
    /\ LET c == data[pi + 1].items[pj + 1]
           split == U32Lt(U32Add(last_mid, U32(1)), c.channel1)
       IN  /\ partitions' = IF split
                            THEN Append(partitions, [start |-> index, size |-> size])
                            ELSE partitions
           /\ index' = IF split THEN index + size ELSE index
           /\ size' = IF split THEN 1 ELSE size + 1
           /\ last_mid' = c.channel1
    /\ pj' = pj + 1
    /\ UNCHANGED <<seed, ndebug, data, hpc, container, pi, pc, loc, adjc, adjv, f, gf, hist, outVars>>

PartitionCell ==
    /\ hpc = "partition"
    /\ pi < Len(data)
    /\ pj < Len(data[pi + 1].items)
    /\ LET c == data[pi + 1].items[pj + 1]
           split == U32Lt(U32Add(last_mid, U32(1)), c.channel1)
                        /\ size >= 2 * THREADS_PER_BLOCK
       IN  /\ partitions' = IF split
                            THEN Append(partitions, [start |-> index, size |-> size])
                            ELSE partitions
           /\ index' = IF split THEN index + size ELSE index
           /\ size' = IF split THEN 1 ELSE size + 1
           /\ last_mid' = c.channel1
    /\ pj' = pj + 1
    /\ UNCHANGED <<seed, ndebug, data, hpc, container, pi, pc, loc, adjc, adjv, f, gf, hist, outVars>>

(* an end of module that never closes the partition being grown *)
PartitionEndModuleNoClose ==
    /\ hpc = "partition"
    /\ pi < Len(data)
    /\ pj = Len(data[pi + 1].items)
    /\ pi' = pi + 1
    /\ pj' = 0
    /\ last_mid' = U32(0)
    /\ UNCHANGED <<seed, ndebug, data, hpc, container, partitions, index, size,
                   pc, loc, adjc, adjv, f, gf, hist, outVars>>

PartitionEndModule ==
    /\ hpc = "partition"
    /\ pi < Len(data)
    /\ pj = Len(data[pi + 1].items)
    /\ LET close == size >= 2 * THREADS_PER_BLOCK
       IN  /\ partitions' = IF close
                            THEN Append(partitions, [start |-> index, size |-> size])
                            ELSE partitions
           /\ index' = IF close THEN index + size ELSE index
           /\ size' = IF close THEN 0 ELSE size
    /\ pi' = pi + 1
    /\ pj' = 0
    /\ last_mid' = U32(0)
    /\ UNCHANGED <<seed, ndebug, data, hpc, container, pc, loc, adjc, adjv, f, gf, hist, outVars>>

(* a return that leaves out the cells after the last split *)
PartitionReturnNoTail ==
    /\ hpc = "partition"
    /\ pi = Len(data)
    /\ hpc' = "launch"
    /\ UNCHANGED <<seed, ndebug, data, container, pi, pj, last_mid, index, size, partitions,
                   pc, loc, adjc, adjv, f, gf, hist, outVars>>

PartitionReturn ==
    /\ hpc = "partition"
    /\ pi = Len(data)
    /\ partitions' = IF size > 0
                     THEN Append(partitions, [start |-> index, size |-> size])
                     ELSE partitions
    /\ hpc' = "launch"
    /\ UNCHANGED <<seed, ndebug, data, container, pi, pj, last_mid, index, size,
                   pc, loc, adjc, adjv, f, gf, hist, outVars>>

(***************************************************************************)
(* operator(), lines 555-556: the launch of one work-group per partition.  *)
(* Shared memory and registers start unset (-1, never a cell index).       *)
(***************************************************************************)
(* the content of an output slot that no work-item has written *)
NoMeasurement == [module_id |-> -1, cells |-> {}]

Regs == [tst |-> 0, k |-> 0, q |-> 0, ft |-> 0, gfc |-> FALSE, base |-> 0, id |-> 0]

(* the history of a work-group: bars[t] counts the barriers work-item t    *)
(* has arrived at, rounds[t] those of them that end a round of fast_sv_1   *)
(* (line 192), prev is gf as it was at the last such barrier, or at the    *)
(* entry of fast_sv_1.  The counts stop at RoundCap rounds.                *)
RoundCap == 6

BarrierCap == 3 * RoundCap + 6

Count(n, cap) == IF n < cap THEN n + 1 ELSE n

NoHistory ==
    [bars |-> [t \in Threads |-> 0], rounds |-> [t \in Threads |-> 0], prev |-> <<>>]

Launch ==
    /\ hpc = "launch"
    /\ hpc' = "sync"
    /\ pc' = [b \in Blocks |-> [t \in Threads |-> "start"]]
    /\ loc' = [b \in Blocks |-> [t \in Threads |-> Regs]]
    /\ adjc' = [b \in Blocks |-> [t \in Threads |-> [r \in 0..(AdjRows - 1) |-> 0]]]
    /\ adjv' = [b \in Blocks |-> [t \in Threads |-> [r \in 0..(AdjRows - 1) |-> <<>>]]]
    /\ f' = [b \in Blocks |-> [x \in 0..(partitions[b + 1].size - 1) |-> -1]]
    /\ gf' = [b \in Blocks |-> [x \in 0..(partitions[b + 1].size - 1) |-> -1]]
    /\ outi' = [b \in Blocks |-> -1]
    /\ agg_outi' = [b \in Blocks |-> -1]
    /\ mctnr' = [size |-> 0,
                 slot |-> [j \in 0..(container.size - 1) |-> NoMeasurement]]
    /\ hist' = [b \in Blocks |-> NoHistory]
    /\ UNCHANGED <<seed, ndebug, data, container, pi, pj, last_mid, index, size, partitions,
                   wlog, out>>

(***************************************************************************)
(* sparse_ccl_kernel, lines 332-347: the cell_container of work-group b.   *)
(***************************************************************************)
View(cont, p) ==
    [size |-> p.size,
     channel0 |-> [x \in 0..(p.size - 1) |-> cont.channel0[p.start + x]],
     channel1 |-> [x \in 0..(p.size - 1) |-> cont.channel1[p.start + x]],
     activation |-> [x \in 0..(p.size - 1) |-> cont.activation[p.start + x]],
     time |-> [x \in 0..(p.size - 1) |-> cont.time[p.start + x]],
     module_id |-> [x \in 0..(p.size - 1) |-> cont.module_id[p.start + x]]]

Cells(b) == View(container, partitions[b + 1])

(* tid = tst * blockDim.x + threadIdx.x, an index_t *)
Tid(t, ts) == (ts * blockDim + t) % IndexMod

(* the synchronisation points of the kernel, by the line of the barrier *)
BarrierPcs ==
    {"sync372", "sync415", "sync156", "sync172", "vote192", "sync428", "sync437",
     "sync443", "sync255"}

(* work-item t goes to v; going to a barrier is arriving at it *)
SetPc(b, t, v) ==
    /\ pc' = [pc EXCEPT ![b][t] = v]
    /\ hist' = IF v \in BarrierPcs
               THEN [hist EXCEPT ![b].bars[t] = Count(@, BarrierCap),
                                 ![b].rounds[t] =
                                     IF v = "vote192" THEN Count(@, RoundCap) ELSE @]
               ELSE hist

(* a barrier: every work-item of the group has arrived at pc value at *)
Arrived(b, at) == \A t \in Threads : pc[b][t] = at

(* line 349 and the barrier of line 372; a failed assertion stops the      *)
(* kernel, and a build with NDEBUG has no assertion                        *)
KernelStart(b, t) ==
    /\ pc[b][t] = "start"
    /\ SetPc(b, t, IF Cells(b).size <= MAX_CELLS_PER_PARTITION \/ ndebug
                   THEN "sync372" ELSE "trap")
    /\ UNCHANGED <<hostVars, outVars, loc, adjc, adjv, f, gf>>

Sync372(b) ==
    /\ Arrived(b, "sync372")
    /\ pc' = [pc EXCEPT ![b] = [t \in Threads |-> "reduce"]]
    /\ UNCHANGED <<hostVars, outVars, loc, adjc, adjv, f, gf, hist>>

(* lines 384-387: the adjacency loop of work-item t, which reads the       *)
(* Cell SoA and writes its own registers only; a cell with more than 8     *)
(* neighbours is stored past the end of adjv[tst], and a work-item with    *)
(* more than MAX_CELLS_PER_PARTITION / THREADS_PER_BLOCK cells stores past *)
(* the end of adjv and adjc: both are undefined                            *)
MyCells(b, t) == {r \in 0..(AdjRows - 1) : Tid(t, r) < Cells(b).size}

(* an adjacency loop that gives work-item t the cells t * rows + tst, a     *)
(* block of consecutive cells, where the other loops take tst * blockDim + t *)
BlockedTid(b, t, r) == (t * AdjRows + r) % Cells(b).size

ReduceBlocked(b, t) ==
    /\ pc[b][t] = "reduce"
    /\ IF /\ ~(Tid(t, AdjRows) < Cells(b).size)
          /\ \A r \in MyCells(b, t) :
                 Len(reduce_problem_cell(Cells(b), BlockedTid(b, t, r))) <= AdjSlots
       THEN /\ adjc' = [adjc EXCEPT ![b][t] = [r \in DOMAIN @ |->
                           IF r \in MyCells(b, t)
                           THEN Len(reduce_problem_cell(Cells(b), BlockedTid(b, t, r)))
                           ELSE @[r]]]
            /\ adjv' = [adjv EXCEPT ![b][t] = [r \in DOMAIN @ |->
                           IF r \in MyCells(b, t)
                           THEN reduce_problem_cell(Cells(b), BlockedTid(b, t, r))
                           ELSE @[r]]]
            /\ SetPc(b, t, "init")
       ELSE /\ SetPc(b, t, "ub")
            /\ UNCHANGED <<adjc, adjv>>
    /\ UNCHANGED <<hostVars, outVars, loc, f, gf>>

Reduce(b, t) ==
    /\ pc[b][t] = "reduce"
    /\ IF /\ ~(Tid(t, AdjRows) < Cells(b).size)
          /\ \A r \in MyCells(b, t) :
                 Len(reduce_problem_cell(Cells(b), Tid(t, r))) <= AdjSlots
       THEN /\ adjc' = [adjc EXCEPT ![b][t] = [r \in DOMAIN @ |->
                           IF r \in MyCells(b, t)
                           THEN Len(reduce_problem_cell(Cells(b), Tid(t, r)))
                           ELSE @[r]]]
            /\ adjv' = [adjv EXCEPT ![b][t] = [r \in DOMAIN @ |->
                           IF r \in MyCells(b, t)
                           THEN reduce_problem_cell(Cells(b), Tid(t, r))
                           ELSE @[r]]]
            /\ SetPc(b, t, "init")
       ELSE /\ SetPc(b, t, "ub")
            /\ UNCHANGED <<adjc, adjv>>
    /\ UNCHANGED <<hostVars, outVars, loc, f, gf>>

(* lines 401-409: the initialisation of f and gf by work-item t, each      *)
(* entry written by the one work-item that owns the cell                   *)
InitF(b, t) ==
    /\ pc[b][t] = "init"
    /\ f' = [f EXCEPT ![b] = [x \in DOMAIN @ |->
                 IF x % blockDim = t THEN x ELSE @[x]]]
    /\ gf' = [gf EXCEPT ![b] = [x \in DOMAIN @ |->
                 IF x % blockDim = t THEN x ELSE @[x]]]
    /\ SetPc(b, t, "sync415")
    /\ UNCHANGED <<hostVars, outVars, loc, adjc, adjv>>

(* line 415, then the entry of fast_sv_1 and of its do loop (line 130) *)
Sync415(b) ==
    /\ Arrived(b, "sync415")
    /\ pc' = [pc EXCEPT ![b] = [t \in Threads |-> "hook"]]
    /\ loc' = [loc EXCEPT ![b] = [t \in Threads |-> Regs]]
    /\ hist' = [hist EXCEPT ![b].prev = gf[b]]
    /\ UNCHANGED <<hostVars, outVars, adjc, adjv, f, gf>>

(***************************************************************************)
(* fast_sv_1, lines 116-193, one action per access to the shared array f   *)
(* that another work-item may write in the same phase.  In the hook phase  *)
(* gf has no writer, so the reads of gf and the test of line 145 are one   *)
(* step with the loop control; the statement of line 146 is the load of    *)
(* f[tid] and the store to f[f[tid]], line 147 is one more store.          *)
(***************************************************************************)
(* a hook that reads gf[k] in the place of gf[adjv[tst][k]] *)
HookAnyCell(b, t) ==
    /\ pc[b][t] = "hook"
    /\ LET ts == loc[b][t].tst
           kk == loc[b][t].k
           tid == Tid(t, ts)
       IN  IF tid < Cells(b).size
           THEN IF kk < adjc[b][t][ts]
                THEN LET qq == gf[b][kk]
                     IN  IF gf[b][tid] > qq
                         THEN /\ loc' = [loc EXCEPT ![b][t].q = qq]
                              /\ SetPc(b, t, "hook146")
                         ELSE /\ loc' = [loc EXCEPT ![b][t].k = kk + 1]
                              /\ UNCHANGED <<pc, hist>>
                ELSE /\ loc' = [loc EXCEPT ![b][t].tst = ts + 1, ![b][t].k = 0]
                     /\ UNCHANGED <<pc, hist>>
           ELSE /\ SetPc(b, t, "sync156")
                /\ loc' = [loc EXCEPT ![b][t].tst = 0, ![b][t].k = 0]
    /\ UNCHANGED <<hostVars, outVars, adjc, adjv, f, gf>>

Hook(b, t) ==
    /\ pc[b][t] = "hook"
    /\ LET ts == loc[b][t].tst
           kk == loc[b][t].k
           tid == Tid(t, ts)
       IN  IF tid < Cells(b).size
           THEN IF kk < adjc[b][t][ts]
                THEN LET qq == gf[b][adjv[b][t][ts][kk + 1]]
                     IN  IF gf[b][tid] > qq
                         THEN /\ loc' = [loc EXCEPT ![b][t].q = qq]
                              /\ SetPc(b, t, "hook146")
                         ELSE /\ loc' = [loc EXCEPT ![b][t].k = kk + 1]
                              /\ UNCHANGED <<pc, hist>>
                ELSE /\ loc' = [loc EXCEPT ![b][t].tst = ts + 1, ![b][t].k = 0]
                     /\ UNCHANGED <<pc, hist>>
           ELSE /\ SetPc(b, t, "sync156")
                /\ loc' = [loc EXCEPT ![b][t].tst = 0, ![b][t].k = 0]
    /\ UNCHANGED <<hostVars, outVars, adjc, adjv, f, gf>>

HookLoad(b, t) ==
    /\ pc[b][t] = "hook146"
    /\ loc' = [loc EXCEPT ![b][t].ft = f[b][Tid(t, loc[b][t].tst)]]
    /\ SetPc(b, t, "hook146s")
    /\ UNCHANGED <<hostVars, outVars, adjc, adjv, f, gf>>

HookStoreParent(b, t) ==
    /\ pc[b][t] = "hook146s"
    /\ f' = [f EXCEPT ![b][loc[b][t].ft] = loc[b][t].q]
    /\ SetPc(b, t, "hook147")
    /\ UNCHANGED <<hostVars, outVars, loc, adjc, adjv, gf>>

HookStoreSelf(b, t) ==
    /\ pc[b][t] = "hook147"
    /\ f' = [f EXCEPT ![b][Tid(t, loc[b][t].tst)] = loc[b][t].q]
    /\ loc' = [loc EXCEPT ![b][t].k = @ + 1]
    /\ SetPc(b, t, "hook")
    /\ UNCHANGED <<hostVars, outVars, adjc, adjv, gf>>

(* a barrier that lets each work-item through as soon as it arrives *)
Sync156NoWait(b) ==
    /\ \E t \in Threads :
           /\ pc[b][t] = "sync156"
           /\ pc' = [pc EXCEPT ![b][t] = "shortcut"]
    /\ UNCHANGED <<hostVars, outVars, loc, adjc, adjv, f, gf, hist>>

(* line 156 *)
Sync156(b) ==
    /\ Arrived(b, "sync156")
    /\ pc' = [pc EXCEPT ![b] = [t \in Threads |-> "shortcut"]]
    /\ UNCHANGED <<hostVars, outVars, loc, adjc, adjv, f, gf, hist>>

(* a shortcut phase that goes through the cells and stores nothing *)
ShortcutNoStore(b, t) ==
    /\ pc[b][t] = "shortcut"
    /\ LET tid == Tid(t, loc[b][t].tst)
       IN  IF tid < Cells(b).size
           THEN /\ loc' = [loc EXCEPT ![b][t].tst = @ + 1]
                /\ UNCHANGED <<pc, hist>>
           ELSE /\ SetPc(b, t, "sync172")
                /\ loc' = [loc EXCEPT ![b][t].tst = 0]
    /\ UNCHANGED <<hostVars, outVars, adjc, adjv, f, gf>>

(* a shortcut that also lowers gf[tid] to f[tid] *)
ShortcutBothWays(b, t) ==
    /\ pc[b][t] = "shortcut"
    /\ LET tid == Tid(t, loc[b][t].tst)
       IN  IF tid < Cells(b).size
           THEN /\ f' = IF f[b][tid] > gf[b][tid]
                        THEN [f EXCEPT ![b][tid] = gf[b][tid]] ELSE f
                /\ gf' = IF f[b][tid] < gf[b][tid]
                         THEN [gf EXCEPT ![b][tid] = f[b][tid]] ELSE gf
                /\ loc' = [loc EXCEPT ![b][t].tst = @ + 1]
                /\ UNCHANGED <<pc, hist>>
           ELSE /\ SetPc(b, t, "sync172")
                /\ loc' = [loc EXCEPT ![b][t].tst = 0]
                /\ UNCHANGED <<f, gf>>
    /\ UNCHANGED <<hostVars, outVars, adjc, adjv>>

(* lines 163-167: one iteration; only work-item t accesses f[tid], gf[tid] *)
Shortcut(b, t) ==
    /\ pc[b][t] = "shortcut"
    /\ LET tid == Tid(t, loc[b][t].tst)
       IN  IF tid < Cells(b).size
           THEN /\ f' = IF f[b][tid] > gf[b][tid]
                        THEN [f EXCEPT ![b][tid] = gf[b][tid]] ELSE f
                /\ loc' = [loc EXCEPT ![b][t].tst = @ + 1]
                /\ UNCHANGED <<pc, hist>>
           ELSE /\ SetPc(b, t, "sync172")
                /\ loc' = [loc EXCEPT ![b][t].tst = 0]
                /\ UNCHANGED f
    /\ UNCHANGED <<hostVars, outVars, adjc, adjv, gf>>

Sync172(b) ==
    /\ Arrived(b, "sync172")
    /\ pc' = [pc EXCEPT ![b] = [t \in Threads |-> "update"]]
    /\ UNCHANGED <<hostVars, outVars, loc, adjc, adjv, f, gf, hist>>

(* an update that sets gfc for every cell it visits, changed or not *)
UpdateAlwaysFlag(b, t) ==
    /\ pc[b][t] = "update"
    /\ LET tid == Tid(t, loc[b][t].tst)
       IN  IF tid < Cells(b).size
           THEN /\ LET ff == f[b][f[b][tid]]
                   IN  IF gf[b][tid] # ff
                       THEN /\ gf' = [gf EXCEPT ![b][tid] = ff]
                            /\ loc' = [loc EXCEPT ![b][t].tst = @ + 1,
                                                  ![b][t].gfc = TRUE]
                       ELSE /\ loc' = [loc EXCEPT ![b][t].tst = @ + 1,
                                                  ![b][t].gfc = TRUE]
                            /\ UNCHANGED gf
                /\ UNCHANGED <<pc, hist>>
           ELSE /\ SetPc(b, t, "vote192")
                /\ loc' = [loc EXCEPT ![b][t].tst = 0]
                /\ UNCHANGED gf
    /\ UNCHANGED <<hostVars, outVars, adjc, adjv, f>>

(* lines 178-183: one iteration; f has no writer in this phase *)
Update(b, t) ==
    /\ pc[b][t] = "update"
    /\ LET tid == Tid(t, loc[b][t].tst)
       IN  IF tid < Cells(b).size
           THEN /\ LET ff == f[b][f[b][tid]]
                   IN  IF gf[b][tid] # ff
                       THEN /\ gf' = [gf EXCEPT ![b][tid] = ff]
                            /\ loc' = [loc EXCEPT ![b][t].tst = @ + 1,
                                                  ![b][t].gfc = TRUE]
                       ELSE /\ loc' = [loc EXCEPT ![b][t].tst = @ + 1]
                            /\ UNCHANGED gf
                /\ UNCHANGED <<pc, hist>>
           ELSE /\ SetPc(b, t, "vote192")
                /\ loc' = [loc EXCEPT ![b][t].tst = 0]
                /\ UNCHANGED gf
    /\ UNCHANGED <<hostVars, outVars, adjc, adjv, f>>

(* a vote in which each work-item goes by its own gfc *)
VoteOwnFlag(b) ==
    /\ Arrived(b, "vote192")
    /\ pc' = [pc EXCEPT ![b] = [t \in Threads |->
                 IF loc[b][t].gfc THEN "hook" ELSE "ret"]]
    /\ loc' = [loc EXCEPT ![b] = [t \in Threads |-> Regs]]
    /\ hist' = [hist EXCEPT ![b].prev = gf[b]]
    /\ UNCHANGED <<hostVars, outVars, adjc, adjv, f, gf>>

(* a vote that ignores gf_changed and always starts another round *)
VoteAlwaysTrue(b) ==
    /\ Arrived(b, "vote192")
    /\ pc' = [pc EXCEPT ![b] = [t \in Threads |-> "hook"]]
    /\ loc' = [loc EXCEPT ![b] = [t \in Threads |-> Regs]]
    /\ hist' = [hist EXCEPT ![b].prev = gf[b]]
    /\ UNCHANGED <<hostVars, outVars, adjc, adjv, f, gf>>

(* line 192: __syncthreads_or(gfc), then line 130 or the return *)
Vote192(b) ==
    /\ Arrived(b, "vote192")
    /\ pc' = [pc EXCEPT ![b] = [t \in Threads |->
                 IF \E u \in Threads : loc[b][u].gfc THEN "hook" ELSE "ret"]]
    /\ loc' = [loc EXCEPT ![b] = [t \in Threads |-> Regs]]
    /\ hist' = [hist EXCEPT ![b].prev = gf[b]]
    /\ UNCHANGED <<hostVars, outVars, adjc, adjv, f, gf>>

FastSV1Step(b, t) ==
    \/ Hook(b, t)
    \/ HookLoad(b, t)
    \/ HookStoreParent(b, t)
    \/ HookStoreSelf(b, t)
    \/ Shortcut(b, t)
    \/ Update(b, t)

FastSV1Sync(b) == Sync156(b) \/ Sync172(b) \/ Vote192(b)

(***************************************************************************)
(* fast_sv_2, lines 195-245, entered in the place of fast_sv_1 after the   *)
(* barrier of line 415.  f is written in the last phase only (line 242),   *)
(* so its reads in the first three phases are part of the step that uses   *)
(* them.  In the first phase gf[f[tid]] is shared by the work-items whose  *)
(* cells have the same label: the test of line 207 and the store of line   *)
(* 208 are two steps.  In the second and third phases gf[tid] is read and  *)
(* written by the one work-item that owns tid.                             *)
(***************************************************************************)
(* line 415, then the entry of fast_sv_2 and of its do loop (lines 199-200) *)
Sync415SV2(b) ==
    /\ Arrived(b, "sync415")
    /\ pc' = [pc EXCEPT ![b] = [t \in Threads |-> "sv2hook"]]
    /\ loc' = [loc EXCEPT ![b] = [t \in Threads |-> Regs]]
    /\ hist' = [hist EXCEPT ![b].prev = gf[b]]
    /\ UNCHANGED <<hostVars, outVars, adjc, adjv, f, gf>>

(* lines 202-207: the loop control and the test of gf[f[tid]] *)
SV2Hook(b, t) ==
    /\ pc[b][t] = "sv2hook"
    /\ LET ts == loc[b][t].tst
           kk == loc[b][t].k
           tid == Tid(t, ts)
       IN  IF tid < Cells(b).size
           THEN IF kk < adjc[b][t][ts]
                THEN LET j == adjv[b][t][ts][kk + 1]
                         ffj == f[b][f[b][j]]
                     IN  IF ffj < gf[b][f[b][tid]]
                         THEN /\ loc' = [loc EXCEPT ![b][t].q = ffj,
                                                    ![b][t].ft = f[b][tid]]
                              /\ SetPc(b, t, "sv2hook208")
                         ELSE /\ loc' = [loc EXCEPT ![b][t].k = kk + 1]
                              /\ UNCHANGED <<pc, hist>>
                ELSE /\ loc' = [loc EXCEPT ![b][t].tst = ts + 1, ![b][t].k = 0]
                     /\ UNCHANGED <<pc, hist>>
           ELSE /\ SetPc(b, t, "sv2sync214")
                /\ loc' = [loc EXCEPT ![b][t].tst = 0, ![b][t].k = 0]
    /\ UNCHANGED <<hostVars, outVars, adjc, adjv, f, gf>>

(* a store of line 208 that leaves gfc as it was *)
SV2HookStoreNoFlag(b, t) ==
    /\ pc[b][t] = "sv2hook208"
    /\ gf' = [gf EXCEPT ![b][loc[b][t].ft] = loc[b][t].q]
    /\ loc' = [loc EXCEPT ![b][t].k = @ + 1]
    /\ SetPc(b, t, "sv2hook")
    /\ UNCHANGED <<hostVars, outVars, adjc, adjv, f>>

(* lines 208-209: the store to gf[f[tid]] of the value that passed the test *)
SV2HookStore(b, t) ==
    /\ pc[b][t] = "sv2hook208"
    /\ gf' = [gf EXCEPT ![b][loc[b][t].ft] = loc[b][t].q]
    /\ loc' = [loc EXCEPT ![b][t].k = @ + 1, ![b][t].gfc = TRUE]
    /\ SetPc(b, t, "sv2hook")
    /\ UNCHANGED <<hostVars, outVars, adjc, adjv, f>>

Sync214(b) ==
    /\ Arrived(b, "sv2sync214")
    /\ pc' = [pc EXCEPT ![b] = [t \in Threads |-> "sv2self"]]
    /\ UNCHANGED <<hostVars, outVars, loc, adjc, adjv, f, gf, hist>>

(* lines 216-226: one neighbour of one cell *)
SV2Self(b, t) ==
    /\ pc[b][t] = "sv2self"
    /\ LET ts == loc[b][t].tst
           kk == loc[b][t].k
           tid == Tid(t, ts)
       IN  IF tid < Cells(b).size
           THEN /\ IF kk < adjc[b][t][ts]
                   THEN LET j == adjv[b][t][ts][kk + 1]
                            ffj == f[b][f[b][j]]
                        IN  IF ffj < gf[b][tid]
                            THEN /\ gf' = [gf EXCEPT ![b][tid] = ffj]
                                 /\ loc' = [loc EXCEPT ![b][t].k = kk + 1,
                                                       ![b][t].gfc = TRUE]
                            ELSE /\ loc' = [loc EXCEPT ![b][t].k = kk + 1]
                                 /\ UNCHANGED gf
                   ELSE /\ loc' = [loc EXCEPT ![b][t].tst = ts + 1, ![b][t].k = 0]
                        /\ UNCHANGED gf
                /\ UNCHANGED <<pc, hist>>
           ELSE /\ SetPc(b, t, "sv2sync228")
                /\ loc' = [loc EXCEPT ![b][t].tst = 0, ![b][t].k = 0]
                /\ UNCHANGED gf
    /\ UNCHANGED <<hostVars, outVars, adjc, adjv, f>>

Sync228(b) ==
    /\ Arrived(b, "sv2sync228")
    /\ pc' = [pc EXCEPT ![b] = [t \in Threads |-> "sv2update"]]
    /\ UNCHANGED <<hostVars, outVars, loc, adjc, adjv, f, gf, hist>>

(* lines 230-236: one cell *)
SV2Update(b, t) ==
    /\ pc[b][t] = "sv2update"
    /\ LET tid == Tid(t, loc[b][t].tst)
       IN  IF tid < Cells(b).size
           THEN /\ LET ff == f[b][f[b][tid]]
                   IN  IF ff < gf[b][tid]
                       THEN /\ gf' = [gf EXCEPT ![b][tid] = ff]
                            /\ loc' = [loc EXCEPT ![b][t].tst = @ + 1,
                                                  ![b][t].gfc = TRUE]
                       ELSE /\ loc' = [loc EXCEPT ![b][t].tst = @ + 1]
                            /\ UNCHANGED gf
                /\ UNCHANGED <<pc, hist>>
           ELSE /\ SetPc(b, t, "sv2sync238")
                /\ loc' = [loc EXCEPT ![b][t].tst = 0]
                /\ UNCHANGED gf
    /\ UNCHANGED <<hostVars, outVars, adjc, adjv, f>>

Sync238(b) ==
    /\ Arrived(b, "sv2sync238")
    /\ pc' = [pc EXCEPT ![b] = [t \in Threads |-> "sv2copy"]]
    /\ UNCHANGED <<hostVars, outVars, loc, adjc, adjv, f, gf, hist>>

(* lines 240-243: one cell *)
SV2Copy(b, t) ==
    /\ pc[b][t] = "sv2copy"
    /\ LET tid == Tid(t, loc[b][t].tst)
       IN  IF tid < Cells(b).size
           THEN /\ f' = [f EXCEPT ![b][tid] = gf[b][tid]]
                /\ loc' = [loc EXCEPT ![b][t].tst = @ + 1]
                /\ UNCHANGED <<pc, hist>>
           ELSE /\ SetPc(b, t, "sv2vote244")
                /\ loc' = [loc EXCEPT ![b][t].tst = 0]
                /\ UNCHANGED f
    /\ UNCHANGED <<hostVars, outVars, adjc, adjv, gf>>

(* line 244: __syncthreads_or(gfc), then line 200 or the return *)
Vote244(b) ==
    /\ Arrived(b, "sv2vote244")
    /\ pc' = [pc EXCEPT ![b] = [t \in Threads |->
                 IF \E u \in Threads : loc[b][u].gfc THEN "sv2hook" ELSE "ret"]]
    /\ loc' = [loc EXCEPT ![b] = [t \in Threads |-> Regs]]
    /\ hist' = [hist EXCEPT ![b].prev = gf[b]]
    /\ UNCHANGED <<hostVars, outVars, adjc, adjv, f, gf>>

FastSV2Step(b, t) ==
    \/ SV2Hook(b, t)
    \/ SV2HookStore(b, t)
    \/ SV2Self(b, t)
    \/ SV2Update(b, t)
    \/ SV2Copy(b, t)

FastSV2Sync(b) == Sync214(b) \/ Sync228(b) \/ Sync238(b) \/ Vote244(b)

(***************************************************************************)
(* fast_sv_1 run by the work-items one after the other, in index order,    *)
(* phase by phase: the schedule in which each phase is sequential.  ff and *)
(* g are the arrays f and gf, adj[tid] the filled slots of cell tid.       *)
(***************************************************************************)
RECURSIVE HookCell(_, _, _, _, _)
HookCell(ff, g, adj, tid, k) ==
    IF k > Len(adj[tid]) THEN ff
    ELSE LET qq == g[adj[tid][k]]
         IN  IF g[tid] > qq
             THEN HookCell([[ff EXCEPT ![ff[tid]] = qq] EXCEPT ![tid] = qq],
                           g, adj, tid, k + 1)
             ELSE HookCell(ff, g, adj, tid, k + 1)

RECURSIVE HookPhase(_, _, _, _)
HookPhase(ff, g, adj, tid) ==
    IF tid \notin DOMAIN ff THEN ff
    ELSE HookPhase(HookCell(ff, g, adj, tid, 1), g, adj, tid + 1)

ShortcutPhase(ff, g) == [i \in DOMAIN ff |-> IF ff[i] > g[i] THEN g[i] ELSE ff[i]]

UpdatePhase(ff) == [i \in DOMAIN ff |-> ff[ff[i]]]

RECURSIVE fast_sv_1(_, _, _)
fast_sv_1(ff, g, adj) ==
    LET f1 == ShortcutPhase(HookPhase(ff, g, adj, 0), g)
        g1 == UpdatePhase(f1)
    IN  IF g1 # g THEN fast_sv_1(f1, g1, adj) ELSE [f |-> f1, gf |-> g1]

(* the adjacency cache of work-group b, by cell *)
Adj(b) == [tid \in DOMAIN f[b] |-> adjv[b][tid % blockDim][tid \div blockDim]]

(* the whole call of fast_sv_1 by work-group b, lines 417 and 116-193; a   *)
(* call run as one step leaves no history of its barriers                  *)
FastSV1(b) ==
    /\ Arrived(b, "hook")
    /\ LET r == fast_sv_1(f[b], gf[b], Adj(b))
       IN  /\ f' = [f EXCEPT ![b] = r.f]
           /\ gf' = [gf EXCEPT ![b] = r.gf]
    /\ pc' = [pc EXCEPT ![b] = [t \in Threads |-> "ret"]]
    /\ UNCHANGED <<hostVars, outVars, loc, adjc, adjv, hist>>

(***************************************************************************)
(* sparse_ccl_kernel, lines 422-450: the owner count and the reservation   *)
(* of the output range.                                                    *)
(***************************************************************************)
(* lines 424-426 *)
ZeroOuti(b, t) ==
    /\ pc[b][t] = "ret"
    /\ outi' = IF t = 0 THEN [outi EXCEPT ![b] = 0] ELSE outi
    /\ SetPc(b, t, "sync428")
    /\ UNCHANGED <<hostVars, loc, adjc, adjv, f, gf, agg_outi, mctnr, wlog, out>>

Sync428(b) ==
    /\ Arrived(b, "sync428")
    /\ pc' = [pc EXCEPT ![b] = [t \in Threads |-> "count"]]
    /\ UNCHANGED <<hostVars, outVars, loc, adjc, adjv, f, gf, hist>>

(* a count of all the cells instead of the owners *)
CountEveryCell(b, t) ==
    /\ pc[b][t] = "count"
    /\ LET tid == Tid(t, loc[b][t].tst)
       IN  IF tid < Cells(b).size
           THEN /\ outi' = [outi EXCEPT ![b] = @ + 1]
                /\ loc' = [loc EXCEPT ![b][t].tst = @ + 1]
                /\ UNCHANGED <<pc, hist>>
           ELSE /\ SetPc(b, t, "sync437")
                /\ loc' = [loc EXCEPT ![b][t].tst = 0]
                /\ UNCHANGED outi
    /\ UNCHANGED <<hostVars, adjc, adjv, f, gf, agg_outi, mctnr, wlog, out>>

(* lines 430-435: one iteration; atomicAdd(&outi, 1) is one step *)
CountOwner(b, t) ==
    /\ pc[b][t] = "count"
    /\ LET tid == Tid(t, loc[b][t].tst)
       IN  IF tid < Cells(b).size
           THEN /\ outi' = IF f[b][tid] = tid
                           THEN [outi EXCEPT ![b] = @ + 1] ELSE outi
                /\ loc' = [loc EXCEPT ![b][t].tst = @ + 1]
                /\ UNCHANGED <<pc, hist>>
           ELSE /\ SetPc(b, t, "sync437")
                /\ loc' = [loc EXCEPT ![b][t].tst = 0]
                /\ UNCHANGED outi
    /\ UNCHANGED <<hostVars, adjc, adjv, f, gf, agg_outi, mctnr, wlog, out>>

Sync437(b) ==
    /\ Arrived(b, "sync437")
    /\ pc' = [pc EXCEPT ![b] = [t \in Threads |-> "reserve"]]
    /\ UNCHANGED <<hostVars, outVars, loc, adjc, adjv, f, gf, hist>>

(* a reservation in which every work-item does the fetch-add *)
ReserveEveryItem(b, t) ==
    /\ pc[b][t] = "reserve"
    /\ mctnr' = [mctnr EXCEPT !.size = @ + outi[b]]
    /\ outi' = [outi EXCEPT ![b] = mctnr.size]
    /\ SetPc(b, t, "sync443")
    /\ UNCHANGED <<hostVars, loc, adjc, adjv, f, gf, agg_outi, wlog, out>>

(* a reservation of one slot more than the owners counted *)
ReserveOneMore(b, t) ==
    /\ pc[b][t] = "reserve"
    /\ IF t = 0
       THEN /\ mctnr' = [mctnr EXCEPT !.size = @ + outi[b] + 1]
            /\ outi' = [outi EXCEPT ![b] = mctnr.size]
       ELSE UNCHANGED <<mctnr, outi>>
    /\ SetPc(b, t, "sync443")
    /\ UNCHANGED <<hostVars, loc, adjc, adjv, f, gf, agg_outi, wlog, out>>

(* a reservation that reads the output size without adding to it *)
ReserveNoAdd(b, t) ==
    /\ pc[b][t] = "reserve"
    /\ IF t = 0
       THEN /\ outi' = [outi EXCEPT ![b] = mctnr.size]
            /\ UNCHANGED mctnr
       ELSE UNCHANGED <<mctnr, outi>>
    /\ SetPc(b, t, "sync443")
    /\ UNCHANGED <<hostVars, loc, adjc, adjv, f, gf, agg_outi, wlog, out>>

(* lines 439-441: outi = atomicAdd(&_out_ctnr.size, outi) by work-item 0 *)
Reserve(b, t) ==
    /\ pc[b][t] = "reserve"
    /\ IF t = 0
       THEN /\ mctnr' = [mctnr EXCEPT !.size = @ + outi[b]]
            /\ outi' = [outi EXCEPT ![b] = mctnr.size]
       ELSE UNCHANGED <<mctnr, outi>>
    /\ SetPc(b, t, "sync443")
    /\ UNCHANGED <<hostVars, loc, adjc, adjv, f, gf, agg_outi, wlog, out>>

Sync443(b) ==
    /\ Arrived(b, "sync443")
    /\ pc' = [pc EXCEPT ![b] = [t \in Threads |-> "out445"]]
    /\ UNCHANGED <<hostVars, outVars, loc, adjc, adjv, f, gf, hist>>

(* lines 445-450, the pointers of out, then lines 251-253 *)
OutPointers(b, t) ==
    /\ pc[b][t] = "out445"
    /\ loc' = [loc EXCEPT ![b][t].base = outi[b]]
    /\ agg_outi' = IF t = 0 THEN [agg_outi EXCEPT ![b] = 0] ELSE agg_outi
    /\ SetPc(b, t, "sync255")
    /\ UNCHANGED <<hostVars, adjc, adjv, f, gf, outi, mctnr, wlog, out>>

Sync255(b) ==
    /\ Arrived(b, "sync255")
    /\ pc' = [pc EXCEPT ![b] = [t \in Threads |-> "aggregate"]]
    /\ UNCHANGED <<hostVars, outVars, loc, adjc, adjv, f, gf, hist>>

(***************************************************************************)
(* aggregate_clusters, lines 261-326.  A measurement is kept as its        *)
(* module_id and the set of the cells (indices into the Cell SoA) that the *)
(* loop of lines 292-314 accumulates.                                      *)
(***************************************************************************)
AccumulatedAfterOwner(b, tid) ==
    {partitions[b + 1].start + j :
         j \in {x \in DOMAIN f[b] : x > tid /\ f[b][x] = tid}}

Accumulated(b, tid) ==
    {partitions[b + 1].start + j :
         j \in {x \in DOMAIN f[b] : x >= tid /\ f[b][x] = tid}}

(***************************************************************************)
(* The float arithmetic of lines 282-324 without rounding: a value is a    *)
(* fraction <<n, d>> in lowest terms with d > 0, or NaN, or an infinity;   *)
(* the quotient of zero by zero is NaN and NaN propagates, as in IEEE 754. *)
(***************************************************************************)
NaN == <<0, 0>>

Inf(sgn) == <<sgn, 0>>

Abs(n) == IF n < 0 THEN -n ELSE n

Sgn(n) == IF n < 0 THEN -1 ELSE IF n > 0 THEN 1 ELSE 0

RECURSIVE Gcd(_, _)
Gcd(x, y) == IF y = 0 THEN x ELSE Gcd(y, x % y)

Frac(n, d) ==
    LET g == Gcd(Abs(n), Abs(d))
    IN  IF d < 0 THEN <<(-n) \div g, (-d) \div g>> ELSE <<n \div g, d \div g>>

FAdd(x, y) ==
    IF x = NaN \/ y = NaN THEN NaN
    ELSE IF x[2] = 0 /\ y[2] = 0 THEN (IF x = y THEN x ELSE NaN)
    ELSE IF x[2] = 0 THEN x
    ELSE IF y[2] = 0 THEN y
    ELSE Frac(x[1] * y[2] + y[1] * x[2], x[2] * y[2])

FSub(x, y) == FAdd(x, <<-y[1], y[2]>>)

FMul(x, y) ==
    IF x = NaN \/ y = NaN THEN NaN
    ELSE IF x[2] = 0 \/ y[2] = 0
         THEN (IF x[1] = 0 \/ y[1] = 0 THEN NaN ELSE Inf(Sgn(x[1]) * Sgn(y[1])))
    ELSE Frac(x[1] * y[1], x[2] * y[2])

FDiv(x, y) ==
    IF x = NaN \/ y = NaN THEN NaN
    ELSE IF x[2] = 0 THEN (IF y[2] = 0 THEN NaN
                           ELSE Inf(IF y[1] < 0 THEN -x[1] ELSE x[1]))
    ELSE IF y[2] = 0 THEN <<0, 1>>
    ELSE IF y[1] = 0 THEN (IF x[1] = 0 THEN NaN ELSE Inf(Sgn(x[1])))
    ELSE Frac(x[1] * y[2], x[2] * y[1])

(* the 24 bits of a float's significand *)
FloatExact == 16777216

RECURSIVE Ulp(_, _)
Ulp(n, q) == IF n < FloatExact * q THEN q ELSE Ulp(n, 2 * q)

(* unsigned int to float, round to nearest even; for values below 2^31 *)
ToFloat(c) ==
    LET n == c[1] * Half + c[2]
        q == Ulp(n, 1)
        r == n % q
        lo == n - r
    IN  IF 2 * r < q THEN <<lo, 1>>
        ELSE IF 2 * r > q THEN <<lo + q, 1>>
        ELSE IF (lo \div q) % 2 = 0 THEN <<lo, 1>> ELSE <<lo + q, 1>>

(* an accumulation that weighs a cell by its time instead of its activation *)
RECURSIVE WelfordByTime(_, _, _, _)
WelfordByTime(cont, js, k, acc) ==
    IF k > Len(js) THEN acc
    ELSE LET j == js[k]
             w == <<cont.time[j], 1>>
             sw == FAdd(acc.sw, w)
             dx == FSub(ToFloat(cont.channel0[j]), acc.mx)
             dy == FSub(ToFloat(cont.channel1[j]), acc.my)
             wf == FDiv(w, sw)
             mx == FAdd(acc.mx, FMul(wf, dx))
             my == FAdd(acc.my, FMul(wf, dy))
         IN  WelfordByTime(cont, js, k + 1,
                 [sw |-> sw, mx |-> mx, my |-> my,
                  vx |-> FAdd(acc.vx,
                              FMul(FMul(w, dx), FSub(ToFloat(cont.channel0[j]), mx))),
                  vy |-> FAdd(acc.vy,
                              FMul(FMul(w, dy), FSub(ToFloat(cont.channel1[j]), my)))])

(* lines 292-314: the loop over the cells js[k..] of the cluster, in index *)
(* order; acc holds sw, mx, my, vx, vy                                     *)
RECURSIVE Welford(_, _, _, _)
Welford(cont, js, k, acc) ==
    IF k > Len(js) THEN acc
    ELSE LET j == js[k]
             w == <<cont.activation[j], 1>>
             sw == FAdd(acc.sw, w)
             pmx == acc.mx
             pmy == acc.my
             dx == FSub(ToFloat(cont.channel0[j]), pmx)
             dy == FSub(ToFloat(cont.channel1[j]), pmy)
             wf == FDiv(w, sw)
             mx == FAdd(pmx, FMul(wf, dx))
             my == FAdd(pmy, FMul(wf, dy))
         IN  Welford(cont, js, k + 1,
                 [sw |-> sw, mx |-> mx, my |-> my,
                  vx |-> FAdd(acc.vx,
                              FMul(FMul(w, dx), FSub(ToFloat(cont.channel0[j]), mx))),
                  vy |-> FAdd(acc.vy,
                              FMul(FMul(w, dy), FSub(ToFloat(cont.channel1[j]), my)))])

RECURSIVE Ascending(_)
Ascending(S) ==
    IF S = {} THEN <<>>
    ELSE LET m == CHOOSE x \in S : \A y \in S : x <= y
         IN  <<m>> \o Ascending(S \ {m})

(***************************************************************************)
(* lines 282-324: the five values stored for an output slot.  A slot of    *)
(* mctnr records the cells that the loop accumulated; the values written   *)
(* to channel0, channel1, variance0, variance1 and module_id follow from   *)
(* them and from the Cell SoA.                                             *)
(***************************************************************************)
Measurement(cont, m) ==
    LET zero == <<0, 1>>
        acc == Welford(cont, Ascending(m.cells), 1,
                       [sw |-> zero, mx |-> zero, my |-> zero, vx |-> zero, vy |-> zero])
    IN  [channel0 |-> acc.mx,
         channel1 |-> acc.my,
         variance0 |-> FDiv(acc.vx, acc.sw),
         variance1 |-> FDiv(acc.vy, acc.sw),
         module_id |-> m.module_id]

(* lines 261-274: one iteration up to the atomicAdd(&outi, 1) of an owner *)
Claim(b, t) ==
    /\ pc[b][t] = "aggregate"
    /\ LET tid == Tid(t, loc[b][t].tst)
       IN  IF tid < Cells(b).size
           THEN IF f[b][tid] = tid
                THEN /\ loc' = [loc EXCEPT ![b][t].id = agg_outi[b]]
                     /\ agg_outi' = [agg_outi EXCEPT ![b] = @ + 1]
                     /\ SetPc(b, t, "store")
                ELSE /\ loc' = [loc EXCEPT ![b][t].tst = @ + 1]
                     /\ UNCHANGED <<agg_outi, pc, hist>>
           ELSE /\ SetPc(b, t, "exit")
                /\ UNCHANGED <<loc, agg_outi>>
    /\ UNCHANGED <<hostVars, adjc, adjv, f, gf, outi, mctnr, wlog, out>>

(* lines 282-324: the accumulation and the stores to out.*[id] *)
Store(b, t) ==
    /\ pc[b][t] = "store"
    /\ LET tid == Tid(t, loc[b][t].tst)
           slot == loc[b][t].base + loc[b][t].id
       IN  /\ mctnr' = [mctnr EXCEPT !.slot =
                           IF slot \in DOMAIN @
                           THEN [@ EXCEPT ![slot] =
                                    [module_id |-> Cells(b).module_id[tid],
                                     cells |-> Accumulated(b, tid)]]
                           ELSE @]
           /\ wlog' = wlog \cup {<<slot, b, tid>>}
    /\ loc' = [loc EXCEPT ![b][t].tst = @ + 1]
    /\ SetPc(b, t, "aggregate")
    /\ UNCHANGED <<hostVars, adjc, adjv, f, gf, outi, agg_outi, out>>

(***************************************************************************)
(* operator(), lines 558-579: the end of the kernel and the per-module     *)
(* lists.                                                                  *)
(***************************************************************************)
(* a selection that takes every measurement, whatever its module_id *)
RECURSIVE MatchingAny(_, _)
MatchingAny(j, m) ==
    IF j >= mctnr.size THEN <<>>
    ELSE <<mctnr.slot[j]>> \o MatchingAny(j + 1, m)

RECURSIVE Matching(_, _)
Matching(j, m) ==
    IF j >= mctnr.size THEN <<>>
    ELSE (IF mctnr.slot[j].module_id = m THEN <<mctnr.slot[j]>> ELSE <<>>)
             \o Matching(j + 1, m)

(* line 558: an error of the kernel is reported here; after an undefined   *)
(* store of a work-item the call may end in an error or go on              *)
Synchronize ==
    /\ hpc = "sync"
    /\ \/ \A b \in DOMAIN pc : \A t \in Threads : pc[b][t] \in {"exit", "trap"}
       \/ \E b \in DOMAIN pc : \E t \in Threads : pc[b][t] = "ub"
    /\ IF \E b \in DOMAIN pc : \E t \in Threads : pc[b][t] = "trap"
       THEN hpc' = "error"
       ELSE IF \E b \in DOMAIN pc : \E t \in Threads : pc[b][t] = "ub"
            THEN hpc' \in {"error", "demux"}
            ELSE hpc' = "demux"
    /\ UNCHANGED <<seed, ndebug, data, container, pi, pj, last_mid, index, size, partitions,
                   pc, loc, adjc, adjv, f, gf, hist, outVars>>

Demux ==
    /\ hpc = "demux"
    /\ out' = [i \in 1..Len(data) |->
                  [module |-> data[i].module, items |-> Matching(0, data[i].module)]]
    /\ hpc' = "done"
    /\ UNCHANGED <<seed, ndebug, data, container, pi, pj, last_mid, index, size, partitions,
                   pc, loc, adjc, adjv, f, gf, outi, agg_outi, mctnr, wlog, hist>>

(* the seeding kernels are not run by operator() *)
NoSeeding == [stage |-> "none"]

(***************************************************************************)
(* The propagator of one call, every interleaving of its work-items.       *)
(***************************************************************************)
HostInitBuild(inputs, builds) ==
    /\ seed = NoSeeding
    /\ ndebug \in builds
    /\ data \in inputs
    /\ hpc = "soa"
    /\ container = MakeContainer(<<>>)
    /\ pi = 0
    /\ pj = 0
    /\ last_mid = U32(0)
    /\ index = 0
    /\ size = 0
    /\ partitions = <<>>
    /\ pc = <<>>
    /\ loc = <<>>
    /\ adjc = <<>>
    /\ adjv = <<>>
    /\ f = <<>>
    /\ gf = <<>>
    /\ outi = <<>>
    /\ agg_outi = <<>>
    /\ mctnr = [size |-> 0, slot |-> <<>>]
    /\ wlog = {}
    /\ hist = <<>>
    /\ out = <<>>

(* the build with assertions *)
HostInit(inputs) == HostInitBuild(inputs, {FALSE})

Host == BuildSoA \/ PartitionCell \/ PartitionEndModule \/ PartitionReturn \/ Launch

InitSV == HostInit(SVInputs)

NextSV ==
    \/ Host
    \/ \E b \in DOMAIN pc : \E t \in Threads :
           KernelStart(b, t) \/ Reduce(b, t) \/ InitF(b, t) \/ FastSV1Step(b, t)
    \/ \E b \in DOMAIN pc : Sync372(b) \/ Sync415(b) \/ FastSV1Sync(b)

SpecSV == InitSV /\ [][NextSV]_vars

(***************************************************************************)
(* The same steps under fair scheduling, on the one-module inputs: the     *)
(* work-items of a launched grid are run by the device until they return   *)
(* (cudaDeviceSynchronize, line 558, waits for them), so a step that stays *)
(* possible is eventually taken.                                           *)
(***************************************************************************)
MaxCellsLive == 4

LiveInputs == Containers(SmallGrid, 1, MaxCellsLive)

InitSVLive == HostInit(LiveInputs)

SpecSVLive == InitSVLive /\ [][NextSV]_vars /\ WF_vars(NextSV)

(***************************************************************************)
(* fast_sv_2 in the place of fast_sv_1, under the same fair scheduling.    *)
(***************************************************************************)
SV2Cell(c0, c1) == [channel0 |-> U32(c0), channel1 |-> U32(c1), activation |-> 1, time |-> 0]

(* five cells: in the second round the work-items of cells 3 and 4 both    *)
(* pass the test of line 207 on gf[2]                                      *)
SV2RaceRow == <<SV2Cell(0, 0), SV2Cell(1, 0), SV2Cell(2, 1), SV2Cell(3, 1), SV2Cell(1, 2)>>

(* eight cells: the work-items of cells 6 and 7 pass the test on gf[4]     *)
(* with different values, and the larger one may be stored last            *)
SV2LostUpdateRow ==
    <<SV2Cell(0, 0), SV2Cell(1, 0), SV2Cell(2, 0), SV2Cell(0, 1), SV2Cell(3, 1),
      SV2Cell(1, 2), SV2Cell(2, 2), SV2Cell(3, 2)>>

SV2Inputs ==
    LiveInputs \cup {<<[module |-> 1, items |-> r]>> : r \in {SV2RaceRow, SV2LostUpdateRow}}

InitSV2 == HostInit(SV2Inputs)

NextSV2 ==
    \/ Host
    \/ \E b \in DOMAIN pc : \E t \in Threads :
           KernelStart(b, t) \/ Reduce(b, t) \/ InitF(b, t) \/ FastSV2Step(b, t)
    \/ \E b \in DOMAIN pc : Sync372(b) \/ Sync415SV2(b) \/ FastSV2Sync(b)

SpecSV2 == InitSV2 /\ [][NextSV2]_vars /\ WF_vars(NextSV2)

(***************************************************************************)
(* The whole call of operator(); each work-group's fast_sv_1 is one step.  *)
(***************************************************************************)
E2EGrid ==
    GridCells({U32(0), U32(1), U32(65536)}, {U32(0)}) \cup GridCells({U32(0)}, {U32(2)})

Inputs == Containers(E2EGrid, MaxModules, MaxCells)

Init == HostInit(Inputs)

Kernel(b, t) ==
    \/ KernelStart(b, t)
    \/ Reduce(b, t)
    \/ InitF(b, t)
    \/ ZeroOuti(b, t)
    \/ CountOwner(b, t)
    \/ Reserve(b, t)
    \/ OutPointers(b, t)
    \/ Claim(b, t)
    \/ Store(b, t)

Barrier(b) ==
    \/ Sync372(b)
    \/ Sync415(b)
    \/ FastSV1(b)
    \/ Sync428(b)
    \/ Sync437(b)
    \/ Sync443(b)
    \/ Sync255(b)

Next ==
    \/ Host
    \/ \E b \in DOMAIN pc : \E t \in Threads : Kernel(b, t)
    \/ \E b \in DOMAIN pc : Barrier(b)
    \/ Synchronize
    \/ Demux

Spec == Init /\ [][Next]_vars

(***************************************************************************)
(* The whole call on one module whose cells are not in the order of        *)
(* (channel1, channel0), in the build with assertions.                     *)
(***************************************************************************)
MaxCellsUnsorted == 3

NotSorted(items) ==
    \E k \in 1..(Len(items) - 1) : ~CellLt(items[k], items[k + 1])

UnsortedLists(G, n) ==
    {s \in UNION {[1..k -> G] : k \in 2..n} :
         /\ \A x, y \in DOMAIN s : x # y => s[x] # s[y]
         /\ NotSorted(s)}

UnsortedInputs ==
    {<<[module |-> 1, items |-> s]>> : s \in UnsortedLists(SmallGrid, MaxCellsUnsorted)}

InitUnsorted == HostInit(UnsortedInputs)

SpecUnsorted == InitUnsorted /\ [][Next]_vars

(***************************************************************************)
(* The whole call with every step of fast_sv_1, on one module of a few     *)
(* cells, under fair scheduling: the work-items of a launched grid are run *)
(* until they return, and cudaDeviceSynchronize (line 558) waits for them. *)
(***************************************************************************)
MaxCellsKernel == 4

KernelInputs == Containers(SmallGrid, 1, MaxCellsKernel)

InitKernel == HostInit(KernelInputs)

KernelStep(b, t) ==
    \/ KernelStart(b, t)
    \/ Reduce(b, t)
    \/ InitF(b, t)
    \/ FastSV1Step(b, t)
    \/ ZeroOuti(b, t)
    \/ CountOwner(b, t)
    \/ Reserve(b, t)
    \/ OutPointers(b, t)
    \/ Claim(b, t)
    \/ Store(b, t)

KernelSync(b) ==
    \/ Sync372(b)
    \/ Sync415(b)
    \/ FastSV1Sync(b)
    \/ Sync428(b)
    \/ Sync437(b)
    \/ Sync443(b)
    \/ Sync255(b)

NextKernel ==
    \/ Host
    \/ \E b \in DOMAIN pc : \E t \in Threads : KernelStep(b, t)
    \/ \E b \in DOMAIN pc : KernelSync(b)
    \/ Synchronize
    \/ Demux

SpecKernel == InitKernel /\ [][NextKernel]_vars /\ WF_vars(NextKernel)

(***************************************************************************)
(* The whole call on one module of a few cells close together, with        *)
(* activations 0, 1 and 2 and two time values.                             *)
(***************************************************************************)
MaxCellsAgg == 3

AggPositions == {<<0, 0>>, <<1, 0>>, <<3, 0>>, <<1, 1>>}

(* <<activation, time>> *)
AggAttributes == {<<0, 0>>, <<1, 0>>, <<2, 0>>, <<1, 7>>}

AggCells ==
    {[channel0 |-> U32(q[1]), channel1 |-> U32(q[2]), activation |-> at[1], time |-> at[2]] :
         q \in AggPositions, at \in AggAttributes}

AggItemLists ==
    {SortedItems(S) :
         S \in {T \in SUBSET AggCells :
                    /\ Cardinality(T) <= MaxCellsAgg
                    /\ \A x, y \in T :
                           x.channel0 = y.channel0 /\ x.channel1 = y.channel1 => x = y}}

AggInputs == {<<>>} \cup {<<[module |-> 1, items |-> it]>> : it \in AggItemLists}

InitAgg == HostInit(AggInputs)

SpecAgg == InitAgg /\ [][Next]_vars

(***************************************************************************)
(* The whole call on one module of one or two dense rows, up to one cell   *)
(* more than MAX_CELLS_PER_PARTITION, in the builds with and without       *)
(* assertions.                                                             *)
(***************************************************************************)
DenseLens == {1, 2, MAX_CELLS_PER_PARTITION, MAX_CELLS_PER_PARTITION + 1}

DenseModules ==
    {SortedItems({[channel0 |-> U32(x), channel1 |-> U32(0), activation |-> 1, time |-> 0] :
                      x \in 0..(len - 1)}) : len \in DenseLens}
    \cup {SortedItems({[channel0 |-> U32(x \div 2), channel1 |-> U32(x % 2),
                         activation |-> 1, time |-> 0] :
                            x \in 0..MAX_CELLS_PER_PARTITION})}

DenseInputs == {<<[module |-> 1, items |-> it]>> : it \in DenseModules}

InitDense == HostInitBuild(DenseInputs, BOOLEAN)

SpecDense == InitDense /\ [][Next]_vars

(***************************************************************************)
(* partition() alone, on modules made of full rows: row r of a module      *)
(* holds the cells with channel0 = 0 .. len-1 of one channel1 value.  The  *)
(* row lengths are chosen around the split threshold, the channel1 values  *)
(* include a gap and the largest value of the type.                        *)
(***************************************************************************)
MaxRows == 2

RowChannels == <<U32(0), U32(1), U32(3), UINT_MAX>>

RowLens == {1, 2 * THREADS_PER_BLOCK - 1, 4 * THREADS_PER_BLOCK - 1}

Row(c1, len) ==
    [x \in 1..len |->
        [channel0 |-> U32(x - 1), channel1 |-> c1, activation |-> 1, time |-> 0]]

RECURSIVE RowsFrom(_, _, _)
RowsFrom(r, S, ln) ==
    IF r > Len(RowChannels) THEN <<>>
    ELSE (IF r \in S THEN Row(RowChannels[r], ln[r]) ELSE <<>>)
             \o RowsFrom(r + 1, S, ln)

RowModules ==
    UNION {{RowsFrom(1, S, ln) : ln \in [S -> RowLens]} :
               S \in {T \in SUBSET DOMAIN RowChannels : Cardinality(T) <= MaxRows}}

PartInputs ==
    {[i \in 1..Len(its) |-> [module |-> i, items |-> its[i]]] :
         its \in UNION {[1..k -> RowModules] : k \in 0..MaxModules}}

InitPart == HostInit(PartInputs)

NextPart == BuildSoA \/ PartitionCell \/ PartitionEndModule \/ PartitionReturn

SpecPart == InitPart /\ [][NextPart]_vars

(***************************************************************************)
(* The propagator on one partition of up to MAX_CELLS_PER_PARTITION cells, *)
(* where the last rows of the work-items' adjacency caches are in use: one *)
(* row of cells two columns apart, the last two cells next to each other.  *)
(***************************************************************************)
FullLens == {1, THREADS_PER_BLOCK + 1, MAX_CELLS_PER_PARTITION - 1, MAX_CELLS_PER_PARTITION}

FullRow(len) ==
    [x \in 1..len |->
        [channel0 |-> U32(IF x = len /\ x > 1 THEN 2 * x - 3 ELSE 2 * x - 2),
         channel1 |-> U32(0), activation |-> 1, time |-> 0]]

FullInputs == {<<[module |-> 1, items |-> FullRow(len)]>> : len \in FullLens}

InitFull == HostInit(FullInputs)

SpecFull == InitFull /\ [][NextSV]_vars

(***************************************************************************)
(* The adjacency reducer: operator() up to the adjacency loop of the       *)
(* kernel, on cells whose channel0 values are close together or multiples  *)
(* of 2^16 apart.                                                          *)
(***************************************************************************)
MaxCellsAdj == 12

WrapGrid ==
    GridCells({U32(0), U32(1), U32(65536), U32(131072)}, {U32(0), U32(1), U32(2)})

EdgeGrid ==
    GridCells({U32(0), U32(1), U32(2)},
              {U32(0), U32(1), U32Sub(UINT_MAX, U32(1)), UINT_MAX})

AdjInputs ==
    Containers(WrapGrid, 1, MaxCellsAdj) \cup Containers(EdgeGrid, MaxModules, MaxCellsSV)

InitAdj == HostInit(AdjInputs)

NextAdj ==
    \/ Host
    \/ \E b \in DOMAIN pc : \E t \in Threads : KernelStart(b, t) \/ Reduce(b, t)
    \/ \E b \in DOMAIN pc : Sync372(b)

SpecAdj == InitAdj /\ [][NextAdj]_vars

(***************************************************************************)
(* The seeding kernels DupletCount (doublet_counting.sycl) and DupletFind  *)
(* (doublet_finding.sycl).  The spacepoint grid is read-only in both: the  *)
(* loop over the neighbour bins visits, for a middle spacepoint, the same  *)
(* neighbours in the same order in both kernels, and isCompatible is a     *)
(* function of the two spacepoints.  grid[b][s] is that sequence for       *)
(* spacepoint s - 1 of bin b - 1: for each neighbour, whether it is        *)
(* compatible as a bottom and as a top spacepoint.  A work-item is         *)
(* <<b, i>>: bin index b - 1 and the index i that find_idx_on_... gives it *)
(* within the bin; each bin gets size / localSize + 1 work-groups.         *)
(***************************************************************************)
localSize == 2

MaxSpPerBin == 3

cclVars == <<ndebug, data, hpc, container, pi, pj, last_mid, index, size, partitions,
             pc, loc, adjc, adjv, f, gf, outi, agg_outi, mctnr, wlog, hist, out>>

Neigh(bot, top) == [bot |-> bot, top |-> top]

NeighbourLists ==
    {<<>>, <<Neigh(TRUE, TRUE)>>, <<Neigh(TRUE, FALSE), Neigh(FALSE, TRUE)>>,
     <<Neigh(TRUE, TRUE), Neigh(TRUE, FALSE)>>}

SeedGrids ==
    {<<bin>> : bin \in UNION {[1..n -> NeighbourLists] : n \in 1..MaxSpPerBin}}
        \cup {<<<<x>>, <<y>>>> : x, y \in NeighbourLists}

(* the work-items of a launch with n entries in bin b *)
GroupsOf(n) == n \div localSize + 1

WorkItems(sizes) ==
    UNION {{<<b, i>> : i \in 0..(GroupsOf(sizes[b]) * localSize - 1)} :
               b \in DOMAIN sizes}

RECURSIVE CountFlags(_, _, _)
CountFlags(ns, k, bot) ==
    IF k = 0 THEN 0
    ELSE CountFlags(ns, k - 1, bot)
             + (IF (IF bot THEN ns[k].bot ELSE ns[k].top) THEN 1 ELSE 0)

(* lines 87-119 of doublet_counting.sycl: the counts of spacepoint i of bin b *)
NMidBot(b, i) == CountFlags(seed.grid[b][i + 1], Len(seed.grid[b][i + 1]), TRUE)

NMidTop(b, i) == CountFlags(seed.grid[b][i + 1], Len(seed.grid[b][i + 1]), FALSE)

(* the containers as the host hands them to doublet_counting: zeroed       *)
(* headers, one doublet-counter entry per spacepoint of the bin            *)
SeedStart(grid) ==
    LET bins == 1..Len(grid)
        items == WorkItems([b \in bins |-> Len(grid[b])])
    IN  [stage |-> "count",
         grid |-> grid,
         cpc |-> [w \in items |-> "start"],
         creg |-> [w \in items |-> [n_mid_bot |-> 0, n_mid_top |-> 0, pos |-> 0]],
         dch |-> [b \in bins |-> [n_spM |-> 0, n_mid_bot |-> 0, n_mid_top |-> 0]],
         dci |-> [b \in bins |-> [i \in 0..(Len(grid[b]) - 1) |->
                     [spM |-> -1, n_mid_bot |-> 0, n_mid_top |-> 0]]],
         fpc |-> <<>>, freg |-> <<>>, lbot |-> <<>>, ltop |-> <<>>,
         mbh |-> <<>>, mth |-> <<>>, mbi |-> <<>>, mti |-> <<>>, flog |-> {}]

(* DupletCount::operator(), lines 60-71: the return of the tail work-items *)
(* and the store of line 71                                                *)
CountEnter(w) ==
    /\ seed.stage = "count"
    /\ seed.cpc[w] = "start"
    /\ seed' = IF w[2] >= Cardinality(DOMAIN seed.dci[w[1]])
               THEN [seed EXCEPT !.cpc[w] = "done"]
               ELSE [seed EXCEPT !.cpc[w] = "zero72",
                                 !.dci[w[1]][w[2]].n_mid_bot = 0]
    /\ UNCHANGED cclVars

(* line 72 *)
CountZeroTop(w) ==
    /\ seed.stage = "count"
    /\ seed.cpc[w] = "zero72"
    /\ seed' = [seed EXCEPT !.cpc[w] = "count", !.dci[w[1]][w[2]].n_mid_top = 0]
    /\ UNCHANGED cclVars

(* lines 74-123: the neighbour loop, which reads the grid only, and the test *)
CountNeighbours(w) ==
    /\ seed.stage = "count"
    /\ seed.cpc[w] = "count"
    /\ LET nb == NMidBot(w[1], w[2])
           nt == NMidTop(w[1], w[2])
       IN  seed' = [seed EXCEPT !.creg[w].n_mid_bot = nb,
                                !.creg[w].n_mid_top = nt,
                                !.cpc[w] = IF nb > 0 /\ nt > 0 THEN "claim" ELSE "done"]
    /\ UNCHANGED cclVars

(* lines 125-126 *)
CountClaim(w) ==
    /\ seed.stage = "count"
    /\ seed.cpc[w] = "claim"
    /\ seed' = [seed EXCEPT !.creg[w].pos = seed.dch[w[1]].n_spM,
                            !.dch[w[1]].n_spM = @ + 1,
                            !.cpc[w] = "addbot"]
    /\ UNCHANGED cclVars

(* lines 128-129 *)
CountAddBot(w) ==
    /\ seed.stage = "count"
    /\ seed.cpc[w] = "addbot"
    /\ seed' = [seed EXCEPT !.dch[w[1]].n_mid_bot = @ + seed.creg[w].n_mid_bot,
                            !.cpc[w] = "addtop"]
    /\ UNCHANGED cclVars

(* lines 131-132 *)
CountAddTop(w) ==
    /\ seed.stage = "count"
    /\ seed.cpc[w] = "addtop"
    /\ seed' = [seed EXCEPT !.dch[w[1]].n_mid_top = @ + seed.creg[w].n_mid_top,
                            !.cpc[w] = "store"]
    /\ UNCHANGED cclVars

(* line 134 *)
CountStore(w) ==
    /\ seed.stage = "count"
    /\ seed.cpc[w] = "store"
    /\ seed' = [seed EXCEPT !.dci[w[1]][seed.creg[w].pos] =
                                [spM |-> w[2],
                                 n_mid_bot |-> seed.creg[w].n_mid_bot,
                                 n_mid_top |-> seed.creg[w].n_mid_top],
                            !.cpc[w] = "done"]
    /\ UNCHANGED cclVars

CountStep(w) ==
    \/ CountEnter(w)
    \/ CountZeroTop(w)
    \/ CountNeighbours(w)
    \/ CountClaim(w)
    \/ CountAddBot(w)
    \/ CountAddTop(w)
    \/ CountStore(w)

CountingDone ==
    /\ seed.stage \in {"count", "find"}
    /\ \A w \in DOMAIN seed.cpc : seed.cpc[w] = "done"

(***************************************************************************)
(* doublet_finding(), lines 258-300 of doublet_finding.sycl, called when   *)
(* doublet_counting has returned (wait_and_throw, line 170): n_spM / 64 +  *)
(* 1 work-groups for each bin.  The doublet containers have zeroed headers *)
(* and an item vector of the size the host chose: the counted total, or    *)
(* less, which the kernel guards against (lines 142-150).                  *)
(***************************************************************************)
Sizes(total) == {total} \cup (IF total > 0 THEN {total - 1} ELSE {})

NoDoublet == [spM |-> -1, sp |-> -1]

LaunchFind ==
    /\ seed.stage = "count"
    /\ CountingDone
    /\ LET bins == DOMAIN seed.dch
           items == WorkItems([b \in bins |-> seed.dch[b].n_spM])
       IN  \E sb \in [bins -> 0..(2 * MaxSpPerBin)], st \in [bins -> 0..(2 * MaxSpPerBin)] :
               /\ \A b \in bins :
                      /\ sb[b] \in Sizes(seed.dch[b].n_mid_bot)
                      /\ st[b] \in Sizes(seed.dch[b].n_mid_top)
               /\ seed' = [seed EXCEPT
                      !.stage = "find",
                      !.fpc = [w \in items |-> "init"],
                      !.freg = [w \in items |->
                                   [sp_idx |-> 0, bot_start |-> 0, top_start |-> 0, k |-> 0]],
                      !.lbot = [w \in items |-> 0],
                      !.ltop = [w \in items |-> 0],
                      !.mbh = [b \in bins |-> 0],
                      !.mth = [b \in bins |-> 0],
                      !.mbi = [b \in bins |-> [x \in 0..(sb[b] - 1) |-> NoDoublet]],
                      !.mti = [b \in bins |-> [x \in 0..(st[b] - 1) |-> NoDoublet]]]
    /\ UNCHANGED cclVars

(* lines 104-109: the sum of the counts of the entries before item_idx *)
RECURSIVE StartIdx(_, _, _)
StartIdx(dc, i, bot) ==
    IF i = 0 THEN 0
    ELSE StartIdx(dc, i - 1, bot)
             + (IF bot THEN dc[i - 1].n_mid_bot ELSE dc[i - 1].n_mid_top)

(* DupletFind::operator(), lines 82-109: the work-item's counters in local *)
(* memory, the test of line 91 and the start indices                       *)
FindInit(w) ==
    /\ seed.stage = "find"
    /\ seed.fpc[w] = "init"
    /\ seed' =
           IF w[2] < seed.dch[w[1]].n_spM
           THEN [seed EXCEPT
                    !.lbot[w] = 0,
                    !.ltop[w] = 0,
                    !.freg[w] = [sp_idx |-> seed.dci[w[1]][w[2]].spM,
                                 bot_start |-> StartIdx(seed.dci[w[1]], w[2], TRUE),
                                 top_start |-> StartIdx(seed.dci[w[1]], w[2], FALSE),
                                 k |-> 0],
                    !.fpc[w] = "loop"]
           ELSE [seed EXCEPT !.lbot[w] = 0, !.ltop[w] = 0, !.fpc[w] = "barrier"]
    /\ UNCHANGED cclVars

(* a bottom part that writes from position 0 of the container, whatever   *)
(* the entries before item_idx count                                       *)
FindBottomFromZero(s, w, nb) ==
    LET b == w[1]
        pos == s.lbot[w]
        sz == Cardinality(DOMAIN s.mbi[b])
    IN  IF nb.bot /\ s.lbot[w] < s.dci[b][w[2]].n_mid_bot /\ s.mbh[b] < sz
        THEN IF pos >= sz
             THEN [st |-> s, cont |-> TRUE]
             ELSE [st |-> [s EXCEPT
                              !.mbi[b][pos] = [spM |-> s.freg[w].sp_idx, sp |-> s.freg[w].k],
                              !.lbot[w] = @ + 1,
                              !.flog = @ \cup {[bin |-> b, bot |-> TRUE, item |-> w[2],
                                                pos |-> pos]}],
                   cont |-> FALSE]
        ELSE [st |-> s, cont |-> FALSE]

(* lines 127-186: one neighbour.  s is the state before it; the result is  *)
(* the state after the bottom part (lines 131-157), with cont set when     *)
(* line 149 skips the rest of the iteration                                *)
FindBottom(s, w, nb) ==
    LET b == w[1]
        pos == s.freg[w].bot_start + s.lbot[w]
        sz == Cardinality(DOMAIN s.mbi[b])
    IN  IF nb.bot /\ s.lbot[w] < s.dci[b][w[2]].n_mid_bot /\ s.mbh[b] < sz
        THEN IF pos >= sz
             THEN [st |-> s, cont |-> TRUE]
             ELSE [st |-> [s EXCEPT
                              !.mbi[b][pos] = [spM |-> s.freg[w].sp_idx, sp |-> s.freg[w].k],
                              !.lbot[w] = @ + 1,
                              !.flog = @ \cup {[bin |-> b, bot |-> TRUE, item |-> w[2],
                                                pos |-> pos]}],
                   cont |-> FALSE]
        ELSE [st |-> s, cont |-> FALSE]

(* lines 159-185 *)
FindTop(s, w, nb) ==
    LET b == w[1]
        pos == s.freg[w].top_start + s.ltop[w]
        sz == Cardinality(DOMAIN s.mti[b])
    IN  IF nb.top /\ s.ltop[w] < s.dci[b][w[2]].n_mid_top /\ s.mth[b] < sz /\ pos < sz
        THEN [s EXCEPT
                 !.mti[b][pos] = [spM |-> s.freg[w].sp_idx, sp |-> s.freg[w].k],
                 !.ltop[w] = @ + 1,
                 !.flog = @ \cup {[bin |-> b, bot |-> FALSE, item |-> w[2], pos |-> pos]}]
        ELSE s

FindNeighbour(w) ==
    /\ seed.stage = "find"
    /\ seed.fpc[w] = "loop"
    /\ LET ns == seed.grid[w[1]][seed.freg[w].sp_idx + 1]
           kk == seed.freg[w].k
       IN  IF kk < Len(ns)
           THEN LET r == FindBottom(seed, w, ns[kk + 1])
                    t == IF r.cont THEN r.st ELSE FindTop(r.st, w, ns[kk + 1])
                IN  seed' = [t EXCEPT !.freg[w].k = kk + 1]
           ELSE seed' = [seed EXCEPT !.fpc[w] = "barrier"]
    /\ UNCHANGED cclVars

(* the work-items of the work-group of w *)
GroupOf(w) ==
    {v \in DOMAIN seed.fpc : v[1] = w[1] /\ v[2] \div localSize = w[2] \div localSize}

(* a barrier after which every work-item of the group does the sum and   *)
(* the fetch-add                                                           *)
FindBarrierEveryItem(w) ==
    /\ seed.stage = "find"
    /\ w[2] % localSize = 0
    /\ \A v \in GroupOf(w) : seed.fpc[v] = "barrier"
    /\ seed' = [seed EXCEPT !.fpc = [v \in DOMAIN @ |->
                    IF v \in GroupOf(w) THEN "sum" ELSE @[v]]]
    /\ UNCHANGED cclVars

(* line 210, then line 222: w is work-item 0 of its group *)
FindBarrier(w) ==
    /\ seed.stage = "find"
    /\ w[2] % localSize = 0
    /\ \A v \in GroupOf(w) : seed.fpc[v] = "barrier"
    /\ seed' = [seed EXCEPT !.fpc = [v \in DOMAIN @ |->
                    IF v \in GroupOf(w) THEN (IF v = w THEN "sum" ELSE "done") ELSE @[v]]]
    /\ UNCHANGED cclVars

RECURSIVE SumOver(_, _)
SumOver(m, S) ==
    IF S = {} THEN 0
    ELSE LET v == CHOOSE x \in S : TRUE IN m[v] + SumOver(m, S \ {v})

(* lines 226-236 *)
FindSum(w) ==
    /\ seed.stage = "find"
    /\ seed.fpc[w] = "sum"
    /\ seed' = [seed EXCEPT !.lbot[w] = SumOver(seed.lbot, GroupOf(w)),
                            !.ltop[w] = SumOver(seed.ltop, GroupOf(w)),
                            !.fpc[w] = "addbot"]
    /\ UNCHANGED cclVars

(* lines 238-240 *)
FindAddBot(w) ==
    /\ seed.stage = "find"
    /\ seed.fpc[w] = "addbot"
    /\ seed' = [seed EXCEPT !.mbh[w[1]] = @ + seed.lbot[w], !.fpc[w] = "addtop"]
    /\ UNCHANGED cclVars

(* lines 242-244 *)
FindAddTop(w) ==
    /\ seed.stage = "find"
    /\ seed.fpc[w] = "addtop"
    /\ seed' = [seed EXCEPT !.mth[w[1]] = @ + seed.ltop[w], !.fpc[w] = "done"]
    /\ UNCHANGED cclVars

FindStep(w) ==
    \/ FindInit(w)
    \/ FindNeighbour(w)
    \/ FindBarrier(w)
    \/ FindSum(w)
    \/ FindAddBot(w)
    \/ FindAddTop(w)

FindingDone ==
    /\ seed.stage = "find"
    /\ \A w \in DOMAIN seed.fpc : seed.fpc[w] = "done"

InitSeed ==
    /\ seed \in {SeedStart(g) : g \in SeedGrids}
    /\ ndebug = FALSE
    /\ data = <<>>
    /\ hpc = "idle"
    /\ container = MakeContainer(<<>>)
    /\ pi = 0
    /\ pj = 0
    /\ last_mid = U32(0)
    /\ index = 0
    /\ size = 0
    /\ partitions = <<>>
    /\ pc = <<>>
    /\ loc = <<>>
    /\ adjc = <<>>
    /\ adjv = <<>>
    /\ f = <<>>
    /\ gf = <<>>
    /\ outi = <<>>
    /\ agg_outi = <<>>
    /\ mctnr = [size |-> 0, slot |-> <<>>]
    /\ wlog = {}
    /\ hist = <<>>
    /\ out = <<>>

NextSeed ==
    \/ \E w \in DOMAIN seed.cpc : CountStep(w)
    \/ LaunchFind
    \/ \E w \in DOMAIN seed.fpc : FindStep(w)

SpecSeed == InitSeed /\ [][NextSeed]_vars

(***************************************************************************)
(* Reference notions the properties are stated with.                       *)
(***************************************************************************)
(* |x - y| <= 1 for two unsigned int values, without wrap-around *)
Near(x, y) ==
    \/ x = y
    \/ y # UINT_MAX /\ x = U32Add(y, U32(1))
    \/ x # UINT_MAX /\ y = U32Add(x, U32(1))

(* cells i and j of the Cell SoA are 8-adjacent *)
Adjacent8(i, j) ==
    /\ i # j
    /\ container.module_id[i] = container.module_id[j]
    /\ Near(container.channel0[i], container.channel0[j])
    /\ Near(container.channel1[i], container.channel1[j])

AllCells == 0..(container.size - 1)

RECURSIVE Cluster(_)
Cluster(S) ==
    LET T == S \cup {j \in AllCells : \E i \in S : Adjacent8(i, j)}
    IN  IF T = S THEN S ELSE Cluster(T)

(* the connected components of the input under 8-adjacency *)
Clusters == {Cluster({i}) : i \in AllCells}

MinOf(S) == CHOOSE x \in S : \A y \in S : x <= y

(* the cells listed in the adjacency cache of cell i of work-group b *)
Listed(b, i) == {Adj(b)[i][x] : x \in 1..Len(Adj(b)[i])}

RECURSIVE Reachable(_, _)
Reachable(b, S) ==
    LET T == S \cup UNION {Listed(b, i) : i \in S}
    IN  IF T = S THEN S ELSE Reachable(b, T)

SymmetricAdj(b) == \A i, j \in DOMAIN f[b] : j \in Listed(b, i) <=> i \in Listed(b, j)

Returned(b) == \A t \in Threads : pc[b][t] = "ret"

(* the index of the partition that holds cell i *)
PartOf(i) ==
    CHOOSE k \in 1..Len(partitions) :
        partitions[k].start <= i /\ i < partitions[k].start + partitions[k].size

RECURSIVE SumSizes(_)
SumSizes(k) == IF k = 0 THEN 0 ELSE partitions[k].size + SumSizes(k - 1)

RECURSIVE SumItems(_)
SumItems(i) == IF i = 0 THEN 0 ELSE Len(out[i].items) + SumItems(i - 1)

(***************************************************************************)
(* C1.  When fast_sv_1 returns on a partition with symmetric adjacency     *)
(* lists, whatever the interleaving of the work-items' reads and writes,   *)
(* f[i] is the smallest cell index of the connected component of i under   *)
(* the adjacency lists, and f[f[i]] = f[i].                                *)
(***************************************************************************)
C1_MinimumLabel ==
    \A b \in DOMAIN pc :
        Returned(b) /\ SymmetricAdj(b) =>
            \A i \in DOMAIN f[b] :
                /\ f[b][i] = MinOf(Reachable(b, {i}))
                /\ f[b][f[b][i]] = f[b][i]

C1_Witness ==
    \E b \in DOMAIN pc :
        /\ Returned(b)
        /\ SymmetricAdj(b)
        /\ \E i \in DOMAIN f[b] : f[b][i] # i /\ i - 1 \notin Listed(b, i)
        /\ \E i \in DOMAIN f[b] : Cardinality(Reachable(b, {i})) >= 3

(***************************************************************************)
(* C2.  When operator() returns, the number of measurements (the output    *)
(* size counter, and the sum of the lengths of the per-module lists) is    *)
(* the number of connected components of the input cells under             *)
(* 8-adjacency within a module.                                            *)
(***************************************************************************)
C2_OneMeasurementPerCluster ==
    hpc = "done" =>
        /\ mctnr.size = Cardinality(Clusters)
        /\ SumItems(Len(out)) = Cardinality(Clusters)

(***************************************************************************)
(* C3.  fast_sv_1 terminates: under fair scheduling every work-group       *)
(* reaches a round whose vote is false, and all its work-items return.     *)
(***************************************************************************)
C3_Terminates == <>(hpc = "sync" /\ \A b \in DOMAIN pc : Returned(b))


C3_Witness ==
    \E b \in DOMAIN pc :
        /\ Returned(b)
        /\ \A t \in Threads : ~loc[b][t].gfc
        /\ Cardinality(DOMAIN gf[b]) >= 3
        /\ \A i \in DOMAIN gf[b] : gf[b][i] = 0

(***************************************************************************)
(* C4.  partition() returns ranges of which the first starts at 0, each    *)
(* next one starts where the previous one ends, and the sizes add up to    *)
(* the number of cells: every cell lies in exactly one partition.          *)
(***************************************************************************)
C4_PartitionsCover ==
    hpc = "launch" =>
        /\ Len(partitions) > 0 => partitions[1].start = 0
        /\ \A k \in 1..(Len(partitions) - 1) :
               partitions[k + 1].start = partitions[k].start + partitions[k].size
        /\ SumSizes(Len(partitions)) = container.size
        /\ \A i \in AllCells :
               Cardinality({k \in 1..Len(partitions) :
                   partitions[k].start <= i
                       /\ i < partitions[k].start + partitions[k].size}) = 1

C4_Witness ==
    /\ hpc = "launch"
    /\ Len(partitions) >= 2
    /\ \E i \in 1..Len(data) : Len(data[i].items) = 0
    /\ \E i \in 1..Len(data) : Len(data[i].items) > 0

(***************************************************************************)
(* C5.  Two 8-adjacent cells of a module are in the same partition.        *)
(***************************************************************************)
C5_NoClusterSplit ==
    hpc = "launch" =>
        \A i, j \in AllCells : Adjacent8(i, j) => PartOf(i) = PartOf(j)

(***************************************************************************)
(* C6.  When no module holds more than MAX_CELLS_PER_PARTITION cells,      *)
(* every partition has at most MAX_CELLS_PER_PARTITION cells, so that the  *)
(* assertion at the head of the kernel holds in every work-group.          *)
(***************************************************************************)
ModulesWithinCap ==
    \A i \in 1..Len(data) : Len(data[i].items) <= MAX_CELLS_PER_PARTITION

C6_PartitionSizeBound ==
    ModulesWithinCap =>
        \A k \in 1..Len(partitions) : partitions[k].size <= MAX_CELLS_PER_PARTITION

ModuleChange(i) == i > 0 /\ container.module_id[i] # container.module_id[i - 1]

C8_ExactNeighbours ==
    \A b \in DOMAIN pc :
        \A tid \in 0..(partitions[b + 1].size - 1) :
            LET adj == reduce_problem_cell(Cells(b), tid)
                start == partitions[b + 1].start
            IN  /\ {adj[x] : x \in 1..Len(adj)} =
                       {j \in 0..(partitions[b + 1].size - 1) :
                            Adjacent8(start + tid, start + j)}
                /\ \A x, y \in 1..Len(adj) : adj[x] = adj[y] => x = y

(***************************************************************************)
(* C9.  adjc[tid] <= 8 for every cell of every partition: no store goes    *)
(* past the 8 slots of adjv[tst].                                          *)
(***************************************************************************)
C9_AtMostEightNeighbours ==
    \A b \in DOMAIN pc :
        /\ \A t \in Threads : pc[b][t] # "ub"
        /\ \A t \in Threads : \A r \in 0..(AdjRows - 1) : adjc[b][t][r] <= AdjSlots

(***************************************************************************)
(* C10.  No output slot is written by two cluster owners: the owners of a  *)
(* work-group hold distinct local indices, and the ranges reserved by      *)
(* different work-groups are disjoint.                                     *)
(***************************************************************************)
Owners(b) == {tid \in DOMAIN f[b] : f[b][tid] = tid}

Reserved(b) == pc[b][0] \in {"sync443", "out445", "sync255", "aggregate", "store", "exit"}

C10_DisjointSlots ==
    /\ \A v, w \in wlog : v[1] = w[1] => v = w
    /\ \A b \in DOMAIN pc : \A t, u \in Threads :
           pc[b][t] = "store" /\ pc[b][u] = "store" /\ t # u
               => loc[b][t].id # loc[b][u].id
    /\ \A b, c \in DOMAIN pc :
           b # c /\ Reserved(b) /\ Reserved(c) =>
               \/ outi[b] + Cardinality(Owners(b)) <= outi[c]
               \/ outi[c] + Cardinality(Owners(c)) <= outi[b]

C10_Witness ==
    /\ \E v, w \in wlog : v[2] # w[2]
    /\ \E v, w \in wlog : v[2] = w[2] /\ v[3] # w[3]
    /\ \E b \in DOMAIN pc : \E t, u \in Threads :
           t # u /\ pc[b][t] = "store" /\ pc[b][u] = "store"

(***************************************************************************)
(* C11.  Once every work-group has finished, the output size counter is    *)
(* the number of cluster owners of all the partitions and every slot of    *)
(* [0, size) has been written by exactly one owner, no slot outside;       *)
(* before that, the local index an owner holds is smaller than the owner   *)
(* count of its work-group and its slot lies in the reserved range.        *)
(***************************************************************************)
RECURSIVE SumOwners(_)
SumOwners(n) == IF n = 0 THEN 0 ELSE Cardinality(Owners(n - 1)) + SumOwners(n - 1)

Finished == hpc \in {"demux", "done"}

C11_ReservedSlotsAllWritten ==
    /\ Finished =>
           /\ mctnr.size = SumOwners(Len(partitions))
           /\ {w[1] : w \in wlog} = 0..(mctnr.size - 1)
           /\ \A v, w \in wlog : v[1] = w[1] => v = w
    /\ hpc = "sync" =>
           \A b \in DOMAIN pc : \A t \in Threads :
               pc[b][t] = "store" =>
                   /\ loc[b][t].id < Cardinality(Owners(b))
                   /\ loc[b][t].base = outi[b]
                   /\ loc[b][t].base + loc[b][t].id < mctnr.size

C11_Witness ==
    /\ hpc = "demux"
    /\ Len(partitions) >= 2
    /\ mctnr.size >= 3
    /\ mctnr.size < container.size

(***************************************************************************)
(* C12.  In every state the output size counter is at most N, the number   *)
(* of input cells, and every output index written is smaller than N.       *)
(***************************************************************************)
C12_AtMostOnePerCell ==
    hpc \in {"sync", "demux", "done", "error"} =>
        /\ mctnr.size <= container.size
        /\ \A w \in wlog : w[1] < container.size
        /\ \A b \in DOMAIN pc : \A t \in Threads :
               pc[b][t] = "store" => loc[b][t].base + loc[b][t].id < container.size

C12_Witness ==
    /\ hpc = "done"
    /\ container.size >= 3
    /\ mctnr.size = container.size
    /\ Cardinality(wlog) = container.size

(***************************************************************************)
(* C13.  Every measurement written carries the module_id of the owner cell *)
(* of its cluster, which is the module_id of every cell aggregated into    *)
(* it and the identifier of an input module, also when the partition       *)
(* holds cells of several modules.                                         *)
(***************************************************************************)
SeveralModules(b) ==
    \E i, j \in 0..(partitions[b + 1].size - 1) :
        Cells(b).module_id[i] # Cells(b).module_id[j]

C13_ModuleOfCluster ==
    \A w \in wlog :
        LET m == mctnr.slot[w[1]]
        IN  /\ m.module_id = container.module_id[partitions[w[2] + 1].start + w[3]]
            /\ \E i \in 1..Len(data) : data[i].module = m.module_id
            /\ \A c \in m.cells : container.module_id[c] = m.module_id

C13_Witness ==
    \E w \in wlog :
        /\ SeveralModules(w[2])
        /\ Cardinality(mctnr.slot[w[1]].cells) >= 2
        /\ \E v \in wlog : v[2] = w[2] /\ mctnr.slot[v[1]].module_id # mctnr.slot[w[1]].module_id

(***************************************************************************)
(* The weighted mean and the weighted variance of a set C of cells of the  *)
(* Cell SoA along one axis (ch: the channel0 or channel1 array), as        *)
(* fractions.                                                              *)
(***************************************************************************)
IntOf(c) == c[1] * Half + c[2]

RECURSIVE SumW(_)
SumW(C) ==
    IF C = {} THEN 0
    ELSE LET j == CHOOSE x \in C : TRUE
         IN  container.activation[j] + SumW(C \ {j})

RECURSIVE SumWC(_, _)
SumWC(ch, C) ==
    IF C = {} THEN 0
    ELSE LET j == CHOOSE x \in C : TRUE
         IN  container.activation[j] * IntOf(ch[j]) + SumWC(ch, C \ {j})

WeightedMean(ch, C) == Frac(SumWC(ch, C), SumW(C))

RECURSIVE SumWDev2(_, _, _)
SumWDev2(ch, C, mean) ==
    IF C = {} THEN <<0, 1>>
    ELSE LET j == CHOOSE x \in C : TRUE
             d == FSub(<<IntOf(ch[j]), 1>>, mean)
         IN  FAdd(FMul(<<container.activation[j], 1>>, FMul(d, d)),
                  SumWDev2(ch, C \ {j}, mean))

(***************************************************************************)
(* C14.  For every cluster C with a positive total weight, the measurement *)
(* written has channel0 = (sum of w*c0) / (sum of w), channel1 likewise,   *)
(* and variance0 * (sum of w) = sum of w * (c0 - mean0)^2, variance1       *)
(* likewise, in arithmetic without rounding.                               *)
(***************************************************************************)
C14_WelfordIsClosedForm ==
    \A v \in wlog :
        LET slot == mctnr.slot[v[1]]
            C == slot.cells
            m == Measurement(container, slot)
            sw == <<SumW(C), 1>>
        IN  SumW(C) > 0 =>
                /\ m.channel0 = WeightedMean(container.channel0, C)
                /\ m.channel1 = WeightedMean(container.channel1, C)
                /\ FMul(m.variance0, sw)
                       = SumWDev2(container.channel0, C, WeightedMean(container.channel0, C))
                /\ FMul(m.variance1, sw)
                       = SumWDev2(container.channel1, C, WeightedMean(container.channel1, C))

(***************************************************************************)
(* C15.  A module of k pairwise non-adjacent cells with activations >= 0   *)
(* gets k measurements, one per cell, with variance0 = variance1 = 0,      *)
(* channel0 = the cell's channel0 and channel1 = the cell's channel1.      *)
(***************************************************************************)
CellsOfModule(i) == {c \in AllCells : container.module_id[c] = data[i].module}

C15_IsolatedCells ==
    hpc = "done" =>
        \A i \in 1..Len(data) :
            (\A c, d \in CellsOfModule(i) : ~Adjacent8(c, d)) =>
                /\ Len(out[i].items) = Cardinality(CellsOfModule(i))
                /\ \A c \in CellsOfModule(i) :
                       \E x \in 1..Len(out[i].items) :
                           LET m == Measurement(container, out[i].items[x])
                           IN  /\ m.channel0 = <<IntOf(container.channel0[c]), 1>>
                               /\ m.channel1 = <<IntOf(container.channel1[c]), 1>>
                               /\ m.variance0 = <<0, 1>>
                               /\ m.variance1 = <<0, 1>>

(***************************************************************************)
(* The kernel as a function of the partition list: the slots that the      *)
(* work-groups of the partition list parts write for the Cell SoA cont,    *)
(* computed work-group by work-group with the sequential fast_sv_1.        *)
(***************************************************************************)
LabelsOf(cont, p) ==
    LET cells == View(cont, p)
        id == [i \in 0..(p.size - 1) |-> i]
        adj == [tid \in 0..(p.size - 1) |-> reduce_problem_cell(cells, tid)]
    IN  fast_sv_1(id, id, adj).f

SlotsOf(cont, p) ==
    LET lab == LabelsOf(cont, p)
    IN  {[module_id |-> cont.module_id[p.start + tid],
          cells |-> {p.start + j : j \in {x \in DOMAIN lab : x >= tid /\ lab[x] = tid}}] :
             tid \in {x \in DOMAIN lab : lab[x] = x}}

KernelSlots(cont, parts) == UNION {SlotsOf(cont, parts[k]) : k \in 1..Len(parts)}

(* the slots of the flat buffer below the output size *)
FlatSlots == {mctnr.slot[j] : j \in 0..(mctnr.size - 1)}

(* the measurements of the slots A, with their multiplicities *)
ValuesOf(cont, A) ==
    [v \in {Measurement(cont, a) : a \in A} |->
        Cardinality({a \in A : Measurement(cont, a) = v})]

(* slots over disjoint sets of cells: equal sets of slots give equal       *)
(* measurements, and sets of different sizes do not                        *)
SameMeasurements(cont, A, B) ==
    \/ A = B
    \/ /\ Cardinality(A) = Cardinality(B)
       /\ ValuesOf(cont, A) = ValuesOf(cont, B)

(* the partition list with the split points S (0 is always one) *)
RECURSIVE CoverFrom(_, _, _)
CoverFrom(S, start, n) ==
    IF start >= n THEN <<>>
    ELSE LET next == IF \E x \in S : x > start
                     THEN CHOOSE x \in S : x > start /\ \A y \in S : y > start => x <= y
                     ELSE n
         IN  <<[start |-> start, size |-> next - start]>> \o CoverFrom(S, next, n)

(* a partition list that meets the partition invariants *)
ValidPartitions(parts) ==
    /\ \A k \in 1..Len(parts) : parts[k].size <= MAX_CELLS_PER_PARTITION
    /\ \A i, j \in AllCells :
           Adjacent8(i, j) =>
               \A k \in 1..Len(parts) :
                   (parts[k].start <= i /\ i < parts[k].start + parts[k].size)
                       <=> (parts[k].start <= j /\ j < parts[k].start + parts[k].size)

ValidCovers ==
    {q \in {CoverFrom(S, 0, container.size) : S \in SUBSET (1..(container.size - 1))} :
         ValidPartitions(q)}

(***************************************************************************)
(* C16.  Partition independence: when the partition list of the run meets  *)
(* the partition invariants, the measurements of the run are, as a         *)
(* multiset, those that the kernel yields for every other partition list   *)
(* that meets them.                                                        *)
(***************************************************************************)
C16_PartitionIndependence ==
    Finished /\ ValidPartitions(partitions) =>
        \A q \in ValidCovers :
            SameMeasurements(container, FlatSlots, KernelSlots(container, q))

(***************************************************************************)
(* The run in which the work-groups reserve their ranges in the order of   *)
(* the partition list and the owners of a work-group claim their local     *)
(* indices in the order of their cells: its flat buffer and its output.    *)
(***************************************************************************)
SlotOfOwner(cont, p, lab, tid) ==
    [module_id |-> cont.module_id[p.start + tid],
     cells |-> {p.start + j : j \in {x \in DOMAIN lab : x >= tid /\ lab[x] = tid}}]

RECURSIVE InOrderFlat(_, _, _)
InOrderFlat(cont, parts, k) ==
    IF k > Len(parts) THEN <<>>
    ELSE LET lab == LabelsOf(cont, parts[k])
             own == Ascending({x \in DOMAIN lab : lab[x] = x})
         IN  [x \in 1..Len(own) |-> SlotOfOwner(cont, parts[k], lab, own[x])]
                 \o InOrderFlat(cont, parts, k + 1)

InOrderList(i) ==
    SelectSeq(InOrderFlat(container, partitions, 1),
              LAMBDA m : m.module_id = data[i].module)

(* lines 567-570: the measurement pushed to a module's list *)
OutputOf(cont, item) ==
    LET m == Measurement(cont, item)
    IN  [local |-> <<m.channel0, m.channel1>>, variance |-> <<m.variance0, m.variance1>>]

OutputList(cont, items) == [x \in 1..Len(items) |-> OutputOf(cont, items[x])]

(***************************************************************************)
(* C17.  Two runs on the same input return the same output: whatever the   *)
(* scheduling, each module's measurement list is, element for element,     *)
(* the list of the run in which the ranges are reserved and the local      *)
(* indices claimed in index order.                                         *)
(***************************************************************************)
C17_SameOutputEveryRun ==
    hpc = "done" =>
        \A i \in 1..Len(data) :
            OutputList(container, out[i].items) = OutputList(container, InOrderList(i))

(***************************************************************************)
(* C18.  The container returned has one entry per input module, in input   *)
(* order and with the module's header, also for a module without cells;    *)
(* a module's list holds, in buffer order, the measurements of the flat    *)
(* buffer with the module's module_id, and every measurement emitted is in *)
(* exactly one list.  (The modules of an input have distinct identifiers.) *)
(***************************************************************************)
FlatBuffer == [x \in 1..mctnr.size |-> mctnr.slot[x - 1]]

C18_OneListPerModule ==
    hpc = "done" =>
        /\ Len(out) = Len(data)
        /\ \A i \in 1..Len(data) :
               /\ out[i].module = data[i].module
               /\ out[i].items =
                      SelectSeq(FlatBuffer, LAMBDA m : m.module_id = data[i].module)
        /\ \A j \in 1..mctnr.size :
               Cardinality({ix \in {<<i, x>> : i \in 1..Len(out), x \in 1..MaxCells} :
                                /\ ix[2] <= Len(out[ix[1]].items)
                                /\ out[ix[1]].items[ix[2]] = FlatBuffer[j]}) = 1

C18_Witness ==
    /\ hpc = "done"
    /\ Len(data) = 2
    /\ Len(data[1].items) = 0
    /\ Len(out[1].items) = 0
    /\ Len(out[2].items) >= 2

(***************************************************************************)
(* C19.  When a module contains a run of more than MAX_CELLS_PER_PARTITION *)
(* cells without a channel1 gap, the call ends in an error and produces no *)
(* output: it never gets to the demultiplexing and never returns a         *)
(* container.                                                              *)
(***************************************************************************)
NoGap(x, y) ==
    \/ y.channel1 = x.channel1
    \/ x.channel1 # UINT_MAX /\ y.channel1 = U32Add(x.channel1, U32(1))

DenseRun(items) ==
    \E a \in 1..Len(items) :
        /\ a + MAX_CELLS_PER_PARTITION <= Len(items)
        /\ \A k \in a..(a + MAX_CELLS_PER_PARTITION - 1) : NoGap(items[k], items[k + 1])

PartitionTooLarge == \E i \in 1..Len(data) : DenseRun(data[i].items)

C19_TooLargeIsAnError ==
    PartitionTooLarge => hpc \notin {"demux", "done"} /\ out = <<>>

(***************************************************************************)
(* C20.  The output does not depend on the time values of the cells: the   *)
(* measurements of each module are, as a multiset, those that the kernel   *)
(* yields for the input with every time set to 0, under any partition      *)
(* list that meets the partition invariants.                               *)
(***************************************************************************)
TimeErased ==
    [i \in 1..Len(data) |->
        [module |-> data[i].module,
         items |-> [x \in 1..Len(data[i].items) |-> [data[i].items[x] EXCEPT !.time = 0]]]]

C20_TimeIsNotUsed ==
    hpc = "done" =>
        LET erased == MakeContainer(TimeErased)
        IN  \A q \in ValidCovers : \A i \in 1..Len(data) :
                ValuesOf(container, {out[i].items[x] : x \in 1..Len(out[i].items)})
                    = ValuesOf(erased, {m \in KernelSlots(erased, q) :
                                            m.module_id = data[i].module})

C20_Witness ==
    /\ hpc = "done"
    /\ \E i \in 1..Len(out) : \E x \in 1..Len(out[i].items) :
           /\ Cardinality(out[i].items[x].cells) >= 2
           /\ \E c \in out[i].items[x].cells :
                  container.time[c] # 0 /\ container.activation[c] > 0
           /\ Measurement(container, out[i].items[x]).channel0 # NaN

(***************************************************************************)
(* Notions for the properties of the propagator.                           *)
(***************************************************************************)
FastSVPcs ==
    {"hook", "hook146", "hook146s", "hook147", "sync156", "shortcut", "sync172",
     "update", "vote192"}

(* work-group b is inside fast_sv_1 *)
InFastSV(b) == \A t \in Threads : pc[b][t] \in FastSVPcs

(***************************************************************************)
(* C21.  Monotonicity: while a work-group is inside fast_sv_1, no step of  *)
(* any work-item, in any phase and under any interleaving, stores to f[i]  *)
(* or gf[i] a value larger than the one it replaces.                       *)
(***************************************************************************)
C21_LabelsNeverIncrease ==
    [][\A b \in DOMAIN pc :
           InFastSV(b) =>
               \A i \in DOMAIN f[b] :
                   f'[b][i] <= f[b][i] /\ gf'[b][i] <= gf[b][i]]_vars

(* the sum of the entries of an array g indexed from 0 *)
RECURSIVE SumTo(_, _)
SumTo(g, n) == IF n = 0 THEN 0 ELSE g[n - 1] + SumTo(g, n - 1)

SumOf(g) == SumTo(g, Cardinality(DOMAIN g))

(***************************************************************************)
(* C22.  At the barrier that ends a round of fast_sv_1 the sum of gf over  *)
(* the partition is at most what it was at the end of the previous round   *)
(* (at the entry of fast_sv_1 for the first round), and it is strictly     *)
(* smaller whenever the vote starts another round.                         *)
(***************************************************************************)
C22_SumOfLabelsDecreases ==
    [][\A b \in DOMAIN pc :
           Arrived(b, "vote192") =>
               /\ SumOf(gf[b]) <= SumOf(hist[b].prev)
               /\ (\E t \in Threads : pc'[b][t] = "hook") =>
                      SumOf(gf[b]) < SumOf(hist[b].prev)]_vars

C22_Witness ==
    \E b \in DOMAIN pc :
        /\ Arrived(b, "vote192")
        /\ \A t \in Threads : hist[b].rounds[t] = 2
        /\ \E t \in Threads : loc[b][t].gfc
        /\ SumOf(gf[b]) < SumOf(hist[b].prev)

(***************************************************************************)
(* C23.  While a work-group is inside fast_sv_1, in any phase and under    *)
(* any interleaving, f[i] <= i and gf[i] <= i for every cell i of the      *)
(* partition.                                                              *)
(***************************************************************************)
C23_LabelAtMostIndex ==
    \A b \in DOMAIN pc :
        InFastSV(b) => \A i \in DOMAIN f[b] : f[b][i] <= i /\ gf[b][i] <= i

(***************************************************************************)
(* C24.  While a work-group is inside fast_sv_1, f[i] and gf[i] are        *)
(* indices of cells of the connected component of i under the adjacency    *)
(* lists, for every cell i and under any interleaving: the labels of two   *)
(* distinct clusters never meet.                                           *)
(***************************************************************************)
RECURSIVE Component(_, _)
Component(b, S) ==
    LET T == S \cup {j \in DOMAIN f[b] :
                         \E i \in S : j \in Listed(b, i) \/ i \in Listed(b, j)}
    IN  IF T = S THEN S ELSE Component(b, T)

C24_LabelInSameComponent ==
    \A b \in DOMAIN pc :
        InFastSV(b) =>
            \A i \in DOMAIN f[b] :
                /\ f[b][i] \in Component(b, {i})
                /\ gf[b][i] \in Component(b, {i})

C24_Witness ==
    \E b \in DOMAIN pc :
        /\ InFastSV(b)
        /\ \E i, j \in DOMAIN f[b] :
               /\ j \notin Component(b, {i})
               /\ f[b][i] # i
               /\ f[b][j] # j
        /\ \E t \in Threads : pc[b][t] = "hook147"

(***************************************************************************)
(* C26.  The phases of a round are separated by the barriers: as long as a *)
(* work-item is in the hook phase of a round no work-item is in the        *)
(* shortcut or update phase, as long as one is in the shortcut phase none  *)
(* is in the update phase or in the next hook phase, and all the           *)
(* work-items of a group are in the same round.                            *)
(***************************************************************************)
HookPcs == {"hook", "hook146", "hook146s", "hook147"}

(* the phase a work-item is in, or has finished and waits after *)
PhaseOf(p) ==
    IF p \in HookPcs \cup {"sync156"} THEN "hook"
    ELSE IF p \in {"shortcut", "sync172"} THEN "shortcut"
    ELSE IF p \in {"update", "vote192"} THEN "update"
    ELSE "none"

(* the round work-item t of work-group b is in, counted from 0 *)
RoundOf(b, t) ==
    IF pc[b][t] = "vote192" THEN hist[b].rounds[t] - 1 ELSE hist[b].rounds[t]

C26_PhasesAreSeparated ==
    \A b \in DOMAIN pc :
        InFastSV(b) =>
            \A t, u \in Threads :
                /\ PhaseOf(pc[b][t]) = PhaseOf(pc[b][u])
                /\ RoundOf(b, t) = RoundOf(b, u)

C26_Witness ==
    \E b \in DOMAIN pc :
        /\ \E t, u \in Threads : pc[b][t] = "shortcut" /\ pc[b][u] = "sync172"
        /\ \A t \in Threads : hist[b].rounds[t] = 1
        /\ \E i \in DOMAIN f[b] : f[b][i] > gf[b][i]

(***************************************************************************)
(* C28.  In a partition where no cell has a neighbour, fast_sv_1 runs one  *)
(* round only and returns with f[tid] = gf[tid] = tid for every cell; in   *)
(* any partition a cell with adjc = 0 has f[tid] = tid when fast_sv_1      *)
(* returns.                                                                *)
(***************************************************************************)
NoNeighbours(b) == \A i \in DOMAIN f[b] : Len(Adj(b)[i]) = 0

C28_IsolatedCellsKeepLabel ==
    \A b \in DOMAIN pc :
        /\ InFastSV(b) /\ NoNeighbours(b) => \A t \in Threads : RoundOf(b, t) = 0
        /\ Returned(b) =>
               /\ NoNeighbours(b) =>
                      /\ \A t \in Threads : hist[b].rounds[t] = 1
                      /\ \A i \in DOMAIN f[b] : f[b][i] = i /\ gf[b][i] = i
               /\ \A i \in DOMAIN f[b] : Len(Adj(b)[i]) = 0 => f[b][i] = i

C28_Witness ==
    \E b \in DOMAIN pc :
        /\ Returned(b)
        /\ NoNeighbours(b)
        /\ Cardinality(DOMAIN f[b]) >= 2
        /\ \A t \in Threads : hist[b].rounds[t] = 1

(***************************************************************************)
(* C29.  For the cells of a partition, is_adjacent holds exactly when the  *)
(* two channel0 values differ by at most 1 and the two channel1 values     *)
(* differ by at most 1, whichever cell comes first and however far apart   *)
(* the channels are.                                                       *)
(***************************************************************************)
C29_AdjacentIffNear ==
    \A b \in DOMAIN pc :
        \A i, j \in 0..(Cells(b).size - 1) :
            is_adjacent(Cells(b).channel0[i], Cells(b).channel1[i],
                        Cells(b).channel0[j], Cells(b).channel1[j])
                <=> /\ Near(Cells(b).channel0[i], Cells(b).channel0[j])
                    /\ Near(Cells(b).channel1[i], Cells(b).channel1[j])

(***************************************************************************)
(* C30.  The adjacency that reduce_problem_cell computes over a partition  *)
(* is symmetric: cell j is in the list of cell i if and only if cell i is  *)
(* in the list of cell j.                                                  *)
(***************************************************************************)
ListOf(b, i) ==
    LET adj == reduce_problem_cell(Cells(b), i) IN {adj[x] : x \in 1..Len(adj)}

C30_AdjacencyIsSymmetric ==
    \A b \in DOMAIN pc :
        \A i, j \in 0..(Cells(b).size - 1) : j \in ListOf(b, i) <=> i \in ListOf(b, j)

(***************************************************************************)
(* C25.  The work-items of a work-group, those that own no cell included,  *)
(* go through the same barriers the same number of times: two work-items   *)
(* at the same place of the kernel have arrived at as many barriers and    *)
(* run as many rounds of fast_sv_1, a work-item that has left the kernel   *)
(* has arrived at three barriers per round and at the six barriers of the  *)
(* kernel outside fast_sv_1, and under fair scheduling every work-item     *)
(* leaves the kernel: none waits at a barrier forever.                     *)
(***************************************************************************)
SameBarriers ==
    \A b \in DOMAIN pc :
        \A t, u \in Threads :
            /\ pc[b][t] = pc[b][u] =>
                   /\ hist[b].bars[t] = hist[b].bars[u]
                   /\ hist[b].rounds[t] = hist[b].rounds[u]
            /\ pc[b][t] = "exit" => hist[b].bars[t] = 3 * hist[b].rounds[t] + 6

AllExited == hpc = "sync" /\ \A b \in DOMAIN pc : \A t \in Threads : pc[b][t] = "exit"

C25_SameBarriersForAll == []SameBarriers /\ <>AllExited

C25_Witness ==
    \E b \in DOMAIN pc :
        /\ Arrived(b, "vote192")
        /\ \E t, u \in Threads : loc[b][t].gfc /\ ~loc[b][u].gfc
        /\ \A t \in Threads : hist[b].rounds[t] = 2

(***************************************************************************)
(* C27.  gf is written in the update phase only and f in the hook and      *)
(* shortcut phases only: no step of a group that is in the hook or the     *)
(* shortcut phase changes gf, no step of a group in the update phase       *)
(* changes f, and once fast_sv_1 has returned no step of the owner count,  *)
(* of the reservation or of aggregate_clusters changes f or gf.            *)
(***************************************************************************)
AfterSVPcs ==
    {"ret", "sync428", "count", "sync437", "reserve", "sync443", "out445", "sync255",
     "aggregate", "store", "exit"}

C27_WritersByPhase ==
    [][\A b \in DOMAIN pc :
           /\ (\E t \in Threads : PhaseOf(pc[b][t]) \in {"hook", "shortcut"}) =>
                  gf'[b] = gf[b]
           /\ (\E t \in Threads : PhaseOf(pc[b][t]) = "update") => f'[b] = f[b]
           /\ (\E t \in Threads : pc[b][t] \in AfterSVPcs) =>
                  f'[b] = f[b] /\ gf'[b] = gf[b]]_vars

C27_Witness ==
    \E b \in DOMAIN pc :
        /\ \E t \in Threads : pc[b][t] = "store"
        /\ \E i \in DOMAIN f[b] : f[b][i] # i
        /\ \A t \in Threads : hist[b].rounds[t] >= 2

(***************************************************************************)
(* C31.  In a partition of at most MAX_CELLS_PER_PARTITION cells every     *)
(* cell tid belongs to exactly one pair (work-item, tst) with              *)
(* tid = tst * blockDim + threadIdx and tst below the number of rows of    *)
(* the adjacency cache; no work-item stores outside adjc or adjv; row tst  *)
(* of a work-item's cache holds the neighbours of that work-item's cell    *)
(* tst, that work-item initialises f and gf of the cell, and the label it  *)
(* reads in the hook of the cell is gf of a neighbour of that cell.        *)
(***************************************************************************)
PastReduce(p) == p \notin {"start", "sync372", "reduce", "trap", "ub"}

C31_OneRowPerCell ==
    \A b \in DOMAIN pc :
        Cells(b).size <= MAX_CELLS_PER_PARTITION =>
            /\ \A tid \in 0..(Cells(b).size - 1) :
                   Cardinality({tr \in Threads \X (0..(AdjRows - 1)) :
                                    Tid(tr[1], tr[2]) = tid}) = 1
            /\ \A t \in Threads :
                   /\ pc[b][t] # "ub"
                   /\ PastReduce(pc[b][t]) =>
                          \A r \in MyCells(b, t) :
                              /\ adjv[b][t][r] = reduce_problem_cell(Cells(b), Tid(t, r))
                              /\ adjc[b][t][r] = Len(adjv[b][t][r])
                   /\ pc[b][t] = "sync415" =>
                          \A r \in MyCells(b, t) :
                              f[b][Tid(t, r)] = Tid(t, r) /\ gf[b][Tid(t, r)] = Tid(t, r)
                   /\ pc[b][t] \in HookPcs /\ Tid(t, loc[b][t].tst) < Cells(b).size =>
                          /\ loc[b][t].tst < AdjRows
                          /\ pc[b][t] # "hook" =>
                                 \E j \in ListOf(b, Tid(t, loc[b][t].tst)) :
                                     loc[b][t].q = gf[b][j]

C31_Witness ==
    \E b \in DOMAIN pc :
        /\ Cells(b).size = MAX_CELLS_PER_PARTITION
        /\ \E t \in Threads :
               /\ pc[b][t] = "hook146"
               /\ loc[b][t].tst = AdjRows - 1
               /\ Tid(t, loc[b][t].tst) = MAX_CELLS_PER_PARTITION - 1

(***************************************************************************)
(* C32.  Every partition of the list that partition() builds holds at      *)
(* least one cell, and every partition other than the last of the list     *)
(* holds at least 2 * THREADS_PER_BLOCK cells.                             *)
(***************************************************************************)
C32_PartitionsLargeEnough ==
    \A k \in 1..Len(partitions) :
        /\ partitions[k].size > 0
        /\ k < Len(partitions) => partitions[k].size >= 2 * THREADS_PER_BLOCK

C32_Witness ==
    /\ hpc = "launch"
    /\ Len(partitions) >= 3
    /\ partitions[Len(partitions)].size < 2 * THREADS_PER_BLOCK
    /\ \E i \in 1..Len(data) : Len(data[i].items) < 2 * THREADS_PER_BLOCK
    /\ \E k \in 1..Len(partitions) : partitions[k].size > 2 * THREADS_PER_BLOCK

(***************************************************************************)
(* C33.  The output size counter changes only by the fetch-add of          *)
(* work-item 0 of a work-group, which happens once all the work-items of   *)
(* the group have finished counting owners and adds the number of owners   *)
(* of the partition; the other work-items leave the counter alone; and a   *)
(* work-item takes its output pointers only once the fetch-add of its      *)
(* group is done, from the base that fetch-add returned.                   *)
(***************************************************************************)
Reserves(b, t) == pc[b][t] = "reserve" /\ pc'[b][t] = "sync443"

C33_OneReservationPerGroup ==
    [][/\ mctnr'.size # mctnr.size => \E b \in DOMAIN pc : Reserves(b, 0)
       /\ \A b \in DOMAIN pc :
              /\ Reserves(b, 0) =>
                     /\ \A t \in Threads : pc[b][t] \in {"reserve", "sync443"}
                     /\ outi[b] = Cardinality(Owners(b))
                     /\ mctnr'.size = mctnr.size + Cardinality(Owners(b))
                     /\ outi'[b] = mctnr.size
              /\ \A t \in Threads :
                     /\ t # 0 /\ Reserves(b, t) =>
                            mctnr'.size = mctnr.size /\ outi'[b] = outi[b]
                     /\ pc[b][t] = "out445" /\ pc'[b][t] = "sync255" =>
                            /\ Reserved(b)
                            /\ loc'[b][t].base = outi[b]
                            /\ outi[b] + Cardinality(Owners(b)) <= mctnr.size]_vars

C33_Witness ==
    \E b, c \in DOMAIN pc :
        /\ b # c
        /\ Reserved(b) /\ Reserved(c)
        /\ outi[b] > 0
        /\ Cardinality(Owners(b)) >= 2
        /\ \E t \in Threads : t # 0 /\ pc[b][t] = "sync255" /\ loc[b][t].base = outi[b]

(***************************************************************************)
(* C34.  While the kernel runs, no step changes the Cell SoA or the        *)
(* partition list; the scratch of a work-group (f, gf, the two owner       *)
(* counters) changes only in steps of that work-group and the adjacency    *)
(* cache of a work-item only in steps of that work-item; an output slot    *)
(* changes only in a step of the work-group whose reserved range holds it; *)
(* and no work-item stores outside the arrays (an undefined store).        *)
(***************************************************************************)
Acts(b, t) == pc'[b][t] # pc[b][t] \/ loc'[b][t] # loc[b][t]

KernelFrame ==
    hpc = "sync" /\ hpc' = "sync" =>
        /\ container' = container
        /\ partitions' = partitions
        /\ \A b \in DOMAIN pc :
               /\ (\A t \in Threads : ~Acts(b, t)) =>
                      /\ f'[b] = f[b]
                      /\ gf'[b] = gf[b]
                      /\ outi'[b] = outi[b]
                      /\ agg_outi'[b] = agg_outi[b]
               /\ \A t \in Threads :
                      ~Acts(b, t) => adjc'[b][t] = adjc[b][t] /\ adjv'[b][t] = adjv[b][t]
        /\ mctnr'.size >= mctnr.size
        /\ \A j \in DOMAIN mctnr.slot :
               mctnr'.slot[j] # mctnr.slot[j] =>
                   \E b \in DOMAIN pc :
                       /\ \E t \in Threads : Acts(b, t)
                       /\ Reserved(b)
                       /\ outi[b] <= j
                       /\ j < outi[b] + Cardinality(Owners(b))

NoUndefinedStore == \A b \in DOMAIN pc' : \A t \in Threads : pc'[b][t] # "ub"

C34_KernelFrame == [][KernelFrame /\ NoUndefinedStore]_vars

(***************************************************************************)
(* C35.  Once fast_sv_1 has returned with converged labels (f[i] the       *)
(* smallest index of the component of i), no cell below an owner carries   *)
(* the owner's label, the measurement that owner tid stores aggregates     *)
(* exactly the cells of the component of tid, and when the work-group has  *)
(* finished every cell of the partition is in exactly one of the           *)
(* measurements the work-group stored.                                     *)
(***************************************************************************)
Converged(b) == \A i \in DOMAIN f[b] : f[b][i] = MinOf(Component(b, {i}))

AfterSV(b) == \A t \in Threads : pc[b][t] \in AfterSVPcs

C35_OwnerAggregatesItsCluster ==
    \A b \in DOMAIN pc :
        AfterSV(b) /\ Converged(b) =>
            /\ \A tid \in Owners(b) : \A j \in DOMAIN f[b] : f[b][j] = tid => j >= tid
            /\ \A w \in wlog :
                   w[2] = b =>
                       mctnr.slot[w[1]].cells =
                           {partitions[b + 1].start + j : j \in Component(b, {w[3]})}
            /\ (\A t \in Threads : pc[b][t] = "exit") =>
                   \A i \in DOMAIN f[b] :
                       Cardinality({w \in wlog :
                           /\ w[2] = b
                           /\ partitions[b + 1].start + i \in mctnr.slot[w[1]].cells}) = 1

C35_Witness ==
    \E b \in DOMAIN pc :
        /\ \A t \in Threads : pc[b][t] = "exit"
        /\ Converged(b)
        /\ \E w \in wlog :
               /\ w[2] = b
               /\ w[3] > 0
               /\ Cardinality(mctnr.slot[w[1]].cells) >= 2

(***************************************************************************)
(* C36.  fast_sv_2, entered with f[i] = gf[i] = i on the symmetric         *)
(* adjacency lists of the reducer, returns under fair scheduling, and when *)
(* it has returned f is the array fast_sv_1 computes from the same start:  *)
(* f[i] is the smallest index of the component of i.  The test of line 207 *)
(* and the store of line 208 are separate steps, so this holds for every   *)
(* interleaving of them.                                                   *)
(***************************************************************************)
Identity(b) == [i \in DOMAIN f[b] |-> i]

SV2SameAsSV1(b) ==
    /\ f[b] = fast_sv_1(Identity(b), Identity(b), Adj(b)).f
    /\ \A i \in DOMAIN f[b] : f[b][i] = MinOf(Component(b, {i}))

C36_FastSV2SameLabels ==
    /\ <>(hpc = "sync" /\ \A b \in DOMAIN pc : Returned(b))
    /\ [](\A b \in DOMAIN pc : Returned(b) /\ SymmetricAdj(b) => SV2SameAsSV1(b))

(* a work-item is about to store to gf[f[tid]] a value larger than the one *)
(* another work-item stored there after the test                           *)
SV2StaleStore(b) ==
    \E t \in Threads :
        pc[b][t] = "sv2hook208" /\ loc[b][t].q > gf[b][loc[b][t].ft]

C36_Witness ==
    \E b \in DOMAIN pc :
        /\ Returned(b)
        /\ SymmetricAdj(b)
        /\ Cardinality(DOMAIN f[b]) = 8
        /\ \A i \in DOMAIN f[b] : f[b][i] = 0

(***************************************************************************)
(* C37.  A call whose input has a module with cells out of the order of    *)
(* (channel1, channel0) does not cluster them: in the build with           *)
(* assertions it never gets to the demultiplexing and never returns a      *)
(* container.                                                              *)
(***************************************************************************)
InputNotSorted == \E i \in 1..Len(data) : NotSorted(data[i].items)

C37_UnsortedIsAnError ==
    InputNotSorted /\ ~ndebug => hpc \notin {"demux", "done"} /\ out = <<>>

(***************************************************************************)
(* C38.  When every work-item of doublet_counting has finished, in every   *)
(* bin the header n_spM is the number of middle spacepoints with           *)
(* n_mid_bot > 0 and n_mid_top > 0, and each of them is, with its own      *)
(* counts, in exactly one of the entries 0 .. n_spM - 1 of the bin's       *)
(* doublet-counter vector.                                                 *)
(***************************************************************************)
CompatibleSpM(b) ==
    {i \in 0..(Len(seed.grid[b]) - 1) : NMidBot(b, i) > 0 /\ NMidTop(b, i) > 0}

CounterOf(b, i) == [spM |-> i, n_mid_bot |-> NMidBot(b, i), n_mid_top |-> NMidTop(b, i)]

C38_CounterEntriesExact ==
    CountingDone =>
        \A b \in DOMAIN seed.dch :
            /\ seed.dch[b].n_spM = Cardinality(CompatibleSpM(b))
            /\ \A i \in CompatibleSpM(b) :
                   Cardinality({p \in 0..(seed.dch[b].n_spM - 1) :
                                    seed.dci[b][p] = CounterOf(b, i)}) = 1

(***************************************************************************)
(* C39.  Every doublet that doublet_finding writes for the entry item_idx  *)
(* of a bin is written inside the doublet container, at a position in      *)
(* [start, start + n) where start is the sum of the counts of the entries  *)
(* before item_idx and n the count of the entry itself; two entries of a   *)
(* bin never write the same position.                                      *)
(***************************************************************************)
CountOfEntry(x) ==
    IF x.bot THEN seed.dci[x.bin][x.item].n_mid_bot ELSE seed.dci[x.bin][x.item].n_mid_top

ContainerSize(x) ==
    Cardinality(DOMAIN (IF x.bot THEN seed.mbi[x.bin] ELSE seed.mti[x.bin]))

C39_WriteRangesDisjoint ==
    seed.stage = "find" =>
        /\ \A x \in seed.flog :
               LET start == StartIdx(seed.dci[x.bin], x.item, x.bot)
               IN  /\ start <= x.pos
                   /\ x.pos < start + CountOfEntry(x)
                   /\ x.pos < ContainerSize(x)
        /\ \A x, y \in seed.flog :
               x.bin = y.bin /\ x.bot = y.bot /\ x.item # y.item => x.pos # y.pos

C39_Witness ==
    /\ FindingDone
    /\ \E x, y \in seed.flog :
           /\ x.bin = y.bin /\ x.bot /\ y.bot
           /\ x.item # y.item
           /\ x.pos > 0 /\ y.pos > 0

(***************************************************************************)
(* C40.  When every work-item of doublet_finding has finished, the header  *)
(* n_doublets of each bin's mid-bot and mid-top container is the number of *)
(* doublets written into that container.                                   *)
(***************************************************************************)
Written(b, bot) == {x \in seed.flog : x.bin = b /\ x.bot = bot}

C40_HeaderCountsWrites ==
    FindingDone =>
        \A b \in DOMAIN seed.mbh :
            /\ seed.mbh[b] = Cardinality(Written(b, TRUE))
            /\ seed.mth[b] = Cardinality(Written(b, FALSE))

C40_Witness ==
    /\ FindingDone
    /\ \E b \in DOMAIN seed.mbh :
           /\ seed.mbh[b] >= 3
           /\ seed.mth[b] >= 2
           /\ Cardinality({w \in DOMAIN seed.fpc : w[1] = b}) > localSize

====
